---- MODULE Spec2Model ----
(***************************************************************************)
(* A model of the ingestion pipelines of risechain/shred-explorer:         *)
(*                                                                         *)
(*   - the indexer's bounded BlockQueue and the BlockProcessor workers     *)
(*     that drain it (packages/indexer/src/models/block_queue.rs);         *)
(*   - the shred pipeline's BlockManager, message handler and periodic     *)
(*     block checker (packages/etl/src/websocket, packages/etl/src/        *)
(*     models.rs);                                                         *)
(*   - the indexer's BlockFetcher, HistoricSync and LiveSync               *)
(*     (packages/indexer/src/sync);                                        *)
(*   - the indexer's blocks table as save_block writes it                  *)
(*     (packages/indexer/src/db).                                          *)
(*                                                                         *)
(* Each pipeline has a specification of its own (SpecQueue, SpecShred,     *)
(* SpecSync, SpecStore, SpecMain, SpecPersist, SpecPush, SpecThrottle,     *)
(* SpecDrain, SpecRetry, SpecLocks, SpecTeardown, SpecComplete); the       *)
(* variables of the others stay at their                                   *)
(* initial values.  SpecMain is the start-up of the indexer                *)
(* (packages/indexer/src/main.rs) up to HistoricSync::start's first test;  *)
(* SpecPersist is the persistence worker of the shred pipeline and the     *)
(* shutdown of process_websocket; SpecPush is the push loop of the fetcher *)
(* and of the live follower; SpecThrottle is throttle_if_queue_full;       *)
(* SpecDrain is the queue with its workers under a fair scheduler;         *)
(* SpecRetry is with_retry (packages/indexer/src/utils/retry.rs);          *)
(* SpecLocks is the tasks of the shred pipeline seen from await to await,  *)
(* with the mutexes they take and the persistence channel; SpecTeardown is *)
(* the shred pipeline followed by the shutdown of process_websocket;       *)
(* SpecComplete is the backfill queue up to historic_sync_complete.        *)
(***************************************************************************)
EXTENDS Integers, Sequences, FiniteSets, TLC

(***************************************************************************)
(* Bounds of the model.                                                    *)
(***************************************************************************)
\* BLOCK_QUEUE_SIZE: the capacity the queue is created with.
max_size == 2
\* Number of tasks that push blocks (fetcher workers, the live follower).
NumProducers == 2
\* DB_WORKERS: how many times BlockProcessor::start is called at most.
NumWriters == 2
\* Number of Block instances the producers create.
MaxBlocks == 3
\* Number of times db.save_block fails.
MaxSaveFailures == 1
\* Number of try_push calls of producers that return false.
MaxTryFails == 2
\* Distinct block numbers the producers of the queue model push.
MaxNumber == 2

\* ---- shred pipeline ----
\* Shreds the websocket delivers in one connection.
MaxShreds == 3
\* Block numbers of the shreds: 1..MaxBlockNum and one block far enough ahead
\* for the old-block cleanup of find_blocks_by_buffer_criteria to apply.
MaxBlockNum == 1
\* Shred indices are 0..MaxShredIdx.
MaxShredIdx == 2
\* MAX_BUFFER_SIZE (1000 in block_manager.rs:12), scaled to the number of
\* shreds the model delivers.
MAX_BUFFER_SIZE == 3
\* The clock advances in steps of ClockStep seconds up to MaxTime.
ClockStep == 30
MaxTime == 240

\* ---- indexer sync ----
\* Config.start_block: the watermark SyncState::new is created with.
start_block == 1
\* How many blocks the chain head is ahead of start_block at start-up, at most.
MaxBacklog == 3
\* The chain head stops growing at MaxHead.
MaxHead == 6
\* BATCH_SIZE, RPC_BATCH_SIZE and max_concurrent_batches range over
\* 1..MaxBatchSize, 1..MaxRpcBatchSize and 0..MaxWorkers.
MaxBatchSize == 3
MaxRpcBatchSize == 2
MaxWorkers == 2
\* LiveSync.max_parallel_blocks (20 in main.rs:133), scaled to the gaps of the model.
max_parallel_blocks == 2
\* RPC calls that fail after all their retries, conversions that fail.
MaxFailures == 2
\* seconds between two polls of wait_for_queue_to_empty that the model tells
\* apart (the program polls every 5 seconds)
WaitStep == 300
MaxSaves == 3
MaxForks == 2
MaxDbTime == 2
MaxDifficulty == 1

\* ---- start-up of the indexer ----
\* Largest chain tip, START_BLOCK, BLOCKS_FROM_TIP and stored block number at
\* start-up.
MaxStartNum == 3

\* ---- persistence worker and shutdown ----
\* Shreds buffered in a block of the map when the message loop ends.
MaxFlushShreds == 2
\* Database calls of the persistence worker that fail.
MaxDbFailures == 1

\* ---- with_retry ----
\* Largest max_retries a caller passes.
MaxRetriesInput == 66

\* ---- queue-fill throttle ----
\* Largest capacity of the queue the throttle is asked about.
MaxCapacity == 20

\* ---- locks of the shred pipeline ----
\* Capacity of the persistence channel (mpsc::channel(100) in
\* block_manager.rs:35), scaled down.
PersistCapacity == 2

(***************************************************************************)
(* Constants of the program.                                               *)
(***************************************************************************)
\* block_manager.rs:13
BUFFER_TIME_SECS == 60
\* block_manager.rs:312: chrono::Duration::seconds(180)
STALE_SECS == 180
\* processor.rs:239: the block checker sleeps 30 seconds between scans
CHECK_INTERVAL_SECS == 30
\* block_manager.rs:347: persisted blocks more than 5 behind the highest are dropped
CLEANUP_DISTANCE == 5
\* live.rs:364: catch_up_blocks processes up to 3 blocks sequentially
SEQUENTIAL_LIMIT == 3
\* historic.rs:198: wait_for_queue_to_empty gives up after 600 seconds
MAX_WAIT_SECS == 600
\* fetcher.rs:284, live.rs:483: failed try_push calls before the blocking push
max_push_retries == 5
\* fetcher.rs:310: sleep(500 * retry_count ms) between two try_push calls
FETCHER_RETRY_WAIT_MS == 500
\* live.rs:512: sleep(100 * retry_count ms) between two try_push calls
LIVE_RETRY_WAIT_MS == 100
\* retry.rs:45: the backoff is capped at 60 seconds
MAX_BACKOFF_MS == 60000
\* retry.rs:43-44: base_delay and the power of two are u64
U64_BITS == 64
\* config.rs:50: RETRY_DELAY defaults to 1000 ms
DefaultRetryDelay == 1000

VARIABLES
    \* ---- BlockQueue / BlockProcessor (block_queue.rs) ----
    q_items,      \* BlockQueue.queue: the SegQueue, head first
    permits,      \* BlockQueue.semaphore: available permits
    status,       \* BlockProcessor.status
    wpc,          \* position of each worker_loop task
    wheld,        \* the block a worker owns (popped, not yet saved or given back)
    ppc,          \* position of each producer inside push / try_push
    pblk,         \* the block a producer owns inside push / try_push
    presult,      \* what the producer's last try_push returned
    nextId,       \* next Block instance to be created
    saveFails,    \* failures of db.save_block so far
    store,        \* block numbers saved by db.save_block
    pushes,       \* per instance: successful queue.push calls
    pops,         \* per instance: deliveries by queue.pop
    dropped,      \* instances dropped by a worker (requeue on a full queue, drain failure)
    try_log,      \* what each try_push call of a producer found at try_acquire, in call order
    pushed_by,    \* per instance: the producer that created it for push or try_push, 0 before
    pops_paused   \* per writer: blocks popped by the main loop since pause() returned true

VARIABLES
    \* ---- shred pipeline (etl/src/websocket, etl/src/models.rs) ----
    now,                   \* chrono::Utc::now(), in seconds
    active_blocks,         \* BlockManager.active_blocks: block number -> Block
    duplicate_count,       \* BlockManager.duplicate_count
    blocks_dropped_count,  \* BlockManager.blocks_dropped_count
    shred_counter,         \* process_websocket's shred_count
    persist_chan,          \* every message sent on persist_sender, in order
    n_recv,                \* websocket messages read so far
    hpc,                   \* position of process_message
    h_shred,               \* process_message: the shred being processed
    h_dup,                 \* add_shred: is_duplicate
    h_to_persist,          \* process_message: blocks_to_persist
    h_i,                   \* process_message: position in blocks_to_persist
    h_buf,                 \* process_message: what check_buffer_limit returned
    cpc,                   \* position of the block checker task
    c_wake,                \* when the block checker's sleep ends
    c_list,                \* block checker: stale_blocks / buffer_blocks
    c_i,                   \* block checker: position in c_list
    c_runs,                \* scans started by the block checker
    c_due,                 \* this scan: the blocks found due for a time-based flush
    c_marked               \* this scan: block numbers persist_block marked in the map

VARIABLES
    \* ---- indexer sync (indexer/src/sync) ----
    chain_head,              \* the chain: eth_blockNumber
    batch_size,              \* HistoricSync.batch_size
    rpc_batch_size,          \* BlockFetcher.rpc_batch_size
    max_concurrent_batches,  \* BlockFetcher.max_concurrent_batches
    latest_synced_block,     \* SyncState.latest_synced_block
    historic_sync_complete,  \* SyncState.historic_sync_complete
    hist_pc,                 \* position of HistoricSync::start
    hist_start,              \* HistoricSync::start: start_block
    hist_end,                \* HistoricSync::start: latest_block_number
    hist_current,            \* process_blocks_concurrent: current_block
    hist_batch_end,          \* process_blocks_concurrent: batch_end
    work_queue,              \* fetch_blocks_range: work_queue
    fw_pc,                   \* position of each worker task of fetch_blocks_range
    fw_batch,                \* worker: the batch it popped
    fw_next,                 \* worker, fetch_batch: the next block of `blocks`
    pushed,                  \* historic queue: block number -> times pushed
    logged,                  \* block numbers covered by an error! of the fetcher
    failures,                \* failed RPC calls and conversions so far
    live_pc,                 \* position of LiveSync::start
    ws_stream,               \* block_headers: the heads not yet read
    last_synced_block,       \* LiveSync: the local last_synced_block
    live_n,                  \* start_websocket_subscription: block_number
    cu_ret,                  \* who called catch_up_blocks
    cu_current,              \* catch_up_blocks: block_number / current_block
    cu_end,                  \* catch_up_blocks: end_block
    cu_batch_size,           \* catch_up_blocks: batch_size
    cu_tasks,                \* catch_up_blocks: block numbers of the running tasks
    live_pushed,             \* live queue: the block numbers pushed, in order
    notif_mark,              \* Len(live_pushed) when the last notification was read
    in_queue,                \* backfill queue: max_size - available_permits (BlockQueue::len)
    wait_elapsed,            \* wait_for_queue_to_empty: start_time.elapsed(), in seconds
    batches_completed        \* fetch_blocks_range: *batches_completed, the batches the workers are done with

VARIABLES
    \* ---- start-up of the indexer (indexer/src/main.rs) ----
    current_chain_tip,    \* main: the chain tip read at start-up
    blocks_from_tip,      \* Config.blocks_from_tip: Option<u64>
    config_start_block,   \* Config.start_block
    db_latest             \* db.get_latest_block_number(): Option<u64>

VARIABLES
    \* ---- persistence worker and shutdown of the shred pipeline ----
    ctl_pc,         \* process_websocket after its message loop / main
    flush_list,     \* process_websocket: blocks_to_flush, what is left of it
    pw_pc,          \* BlockManager::persistence_worker
    pw_read,        \* messages the worker has received from persist_receiver
    pw_block,       \* persistence_worker: the block of the message in hand
    db_shreds,      \* the shreds table: committed rows, row id = position
    db_blocks,      \* the ETL's blocks table: block number -> header row
    partial,        \* blocks whose shred rows were committed and whose header write failed
    db_failures,    \* database calls that have failed
    exit_code       \* Option: the exit code of the process once it has ended

VARIABLES
    \* ---- pushing a block with retries (fetcher.rs, live.rs) ----
    r_pc,          \* position of each caller inside its push loop
    retry_count,   \* the loop's retry_count
    r_blk,         \* model_block: the block the caller is pushing
    r_tries,       \* try_push calls made for model_block so far
    r_waits,       \* the sleeps of the loop for model_block, in ms, in order
    r_how          \* per Block instance: the call that added it, once the loop is left

VARIABLES
    \* ---- throttle_if_queue_full (fetcher.rs, historic.rs) ----
    t_pc,          \* position inside throttle_if_queue_full
    t_caller,      \* who called it
    t_capacity,    \* capacity
    t_queue_size,  \* queue_size
    t_sleep        \* Option: the milliseconds of the sleep once the call has returned

VARIABLES
    \* ---- with_retry (indexer/src/utils/retry.rs) ----
    b_pc,           \* position inside with_retry
    b_retry_delay,  \* retry_delay
    b_max_retries,  \* max_retries
    attempt,        \* attempt
    invocations,    \* how many times operation() has been invoked
    b_result,       \* how with_retry ended: "Ok", "Err", "panic", or "none" so far
    b_err_of,       \* the invocation whose error with_retry returned
    max_delay,      \* Option: exponential_backoff's max_delay of the last backoff
    b_slept         \* Option: the milliseconds of the last sleep

VARIABLES
    \* ---- locks of the shred pipeline (etl/src/websocket) ----
    k_pc,          \* per task: <<function, position>>, the next operation of the task
    lock_owner,    \* per tokio Mutex: the task holding its guard, or "free"
    k_chan,        \* the persistence channel: the kinds of the messages in it
    worker_alive,  \* the persistence worker still owns the receiver
    aborted,       \* status_task.abort() and blocks_task.abort() were called
    lock_pairs     \* <<held, taken>>: locks taken while another one was held

VARIABLES
    \* ---- the blocks table (indexer/src/db) ----
    table,        \* the rows of the blocks table
    db_now,       \* CURRENT_TIMESTAMP of the database
    saved         \* the Blocks that save_block has stored, in the order of the saves

qvars == <<q_items, permits, status, wpc, wheld, ppc, pblk, presult, nextId,
           saveFails, store, pushes, pops, dropped, try_log, pushed_by, pops_paused>>

svars == <<now, active_blocks, duplicate_count, blocks_dropped_count, shred_counter,
           persist_chan, n_recv, hpc, h_shred, h_dup, h_to_persist, h_i, h_buf,
           cpc, c_wake, c_list, c_i, c_runs, c_due, c_marked>>

yvars == <<chain_head, batch_size, rpc_batch_size, max_concurrent_batches,
           latest_synced_block, historic_sync_complete, hist_pc, hist_start, hist_end,
           hist_current, hist_batch_end, work_queue, fw_pc, fw_batch, fw_next, pushed,
           logged, failures, live_pc, ws_stream, last_synced_block, live_n, cu_ret,
           cu_current, cu_end, cu_batch_size, cu_tasks, live_pushed, notif_mark,
           in_queue, wait_elapsed,
           batches_completed>>

dvars == <<table, db_now, saved>>

mvars == <<current_chain_tip, blocks_from_tip, config_start_block, db_latest>>

pvars == <<ctl_pc, flush_list, pw_pc, pw_read, pw_block, db_shreds, db_blocks, partial,
           db_failures, exit_code>>

rvars == <<r_pc, retry_count, r_blk, r_tries, r_waits, r_how>>

tvars == <<t_pc, t_caller, t_capacity, t_queue_size, t_sleep>>

bvars == <<b_pc, b_retry_delay, b_max_retries, attempt, invocations, b_result, b_err_of,
           max_delay, b_slept>>

kvars == <<k_pc, lock_owner, k_chan, worker_alive, aborted, lock_pairs>>

\* What the queue model leaves alone.
nonqvars == <<svars, yvars, dvars, mvars, pvars, rvars, tvars, bvars, kvars>>
\* What the shred model leaves alone.
nonsvars == <<qvars, yvars, dvars, mvars, pvars, rvars, tvars, bvars, kvars>>
\* What the sync model leaves alone.
nonyvars == <<qvars, svars, dvars, mvars, pvars, rvars, tvars, bvars, kvars>>
\* What the model of the blocks table leaves alone.
nondvars == <<qvars, svars, yvars, mvars, pvars, rvars, tvars, bvars, kvars>>

\* What the start-up model leaves alone, besides the sync variables it does
\* not write.
nonmvars == <<qvars, svars, dvars, pvars, rvars, tvars, bvars, kvars>>

\* What the model of the persistence worker leaves alone, besides the map and
\* the channel of the shred pipeline.
nonpvars == <<qvars, yvars, dvars, mvars, now, duplicate_count, blocks_dropped_count,
              shred_counter, n_recv, hpc, h_shred, h_dup, h_to_persist, h_i, h_buf,
              cpc, c_wake, c_list, c_i, c_runs, c_due, c_marked, rvars, tvars, bvars, kvars>>

\* What the push loop of the fetcher and of the live follower leaves alone,
\* besides the queue it pushes to.
nonrvars == <<svars, yvars, dvars, mvars, pvars, tvars, bvars, kvars>>

\* What the throttle leaves alone.
nontvars == <<qvars, svars, yvars, dvars, mvars, pvars, rvars, bvars, kvars>>

\* What with_retry leaves alone.
nonbvars == <<qvars, svars, yvars, dvars, mvars, pvars, rvars, tvars, kvars>>

\* What the lock model leaves alone.
nonkvars == <<qvars, svars, yvars, dvars, mvars, pvars, rvars, tvars, bvars>>

vars == <<qvars, svars, yvars, dvars, mvars, pvars, rvars, tvars, bvars, kvars>>

(***************************************************************************)
(* BlockQueue                                                              *)
(***************************************************************************)
Producers == 1..NumProducers
Writers == 1..NumWriters
BlockIds == 1..MaxBlocks

NoBlock == [id |-> 0, number |-> 0]
MkBlock(i, n) == [id |-> i, number |-> n]
\* The i-th block a producer creates: the block numbers repeat, so that two
\* instances can carry the same number.
NewBlock(i) == MkBlock(i, ((i - 1) % MaxNumber) + 1)

\* BlockQueue::len: max_size - available_permits (usize arithmetic).
QueueLen == max_size - permits
\* BlockQueue::capacity
QueueCapacity == max_size
\* BlockQueue::is_empty
QueueIsEmpty == permits = max_size

\* Semaphore::try_acquire / acquire succeeding: one permit is taken and forgotten.
AcquirePermit == permits > 0 /\ permits' = permits - 1
\* Semaphore::add_permits(1) in try_pop.
ReleasePermit == permits' = permits + 1
\* A queue.push that puts the block at the head of the queue.
EnqueueFront(b) == q_items' = <<b>> \o q_items /\ pushes' = [pushes EXCEPT ![b.id] = @ + 1]
\* SegQueue::push.  The log line that follows it in push and try_push reads
\* len() and compares it with max_size - 10 in usize arithmetic, which wraps
\* for max_size < 10 in a build without overflow checks; it only selects the
\* log level and changes no state.
Enqueue(b) == q_items' = Append(q_items, b) /\ pushes' = [pushes EXCEPT ![b.id] = @ + 1]
\* SegQueue::pop returning Some(block)
Dequeue == q_items # <<>> /\ q_items' = Tail(q_items)
             /\ pops' = [pops EXCEPT ![Head(q_items).id] = @ + 1]

QInit ==
    /\ q_items = <<>>
    /\ permits = max_size
    /\ status = "Stopped"
    /\ wpc = [w \in Writers |-> "unspawned"]
    /\ wheld = [w \in Writers |-> NoBlock]
    /\ ppc = [p \in Producers |-> "idle"]
    /\ pblk = [p \in Producers |-> NoBlock]
    /\ presult = [p \in Producers |-> "none"]
    /\ nextId = 1
    /\ saveFails = 0
    /\ store = {}
    /\ pushes = [i \in BlockIds |-> 0]
    /\ pops = [i \in BlockIds |-> 0]
    /\ dropped = {}
    /\ try_log = <<>>
    /\ pushed_by = [i \in BlockIds |-> 0]
    /\ pops_paused = [w \in Writers |-> 0]

\* ---- producers: BlockQueue::try_push ----
\* The try_push calls of producers that have returned false so far.
TryFails == Cardinality({i \in DOMAIN try_log : ~try_log[i]})

\* try_push without mem::forget(permit): the permit goes back when it is dropped.
TryPushAcquireNoForget(p) ==
    /\ ppc[p] = "idle" /\ nextId <= MaxBlocks
    /\ permits > 0
    /\ pblk' = [pblk EXCEPT ![p] = NewBlock(nextId)]
    /\ pushed_by' = [pushed_by EXCEPT ![nextId] = p]
    /\ nextId' = nextId + 1
    /\ ppc' = [ppc EXCEPT ![p] = "try_enq"]
    /\ try_log' = Append(try_log, TRUE)
    /\ UNCHANGED nonqvars
    /\ UNCHANGED <<q_items, permits, status, wpc, wheld, presult, saveFails, store, pushes,
                   pops, dropped>>
    /\ UNCHANGED pops_paused

\* try_acquire succeeded: the permit is held, queue.push comes next.
TryPushAcquire(p) ==
    /\ ppc[p] = "idle" /\ nextId <= MaxBlocks
    /\ AcquirePermit
    /\ pblk' = [pblk EXCEPT ![p] = NewBlock(nextId)]
    /\ pushed_by' = [pushed_by EXCEPT ![nextId] = p]
    /\ nextId' = nextId + 1
    /\ ppc' = [ppc EXCEPT ![p] = "try_enq"]
    /\ try_log' = Append(try_log, TRUE)
    /\ UNCHANGED nonqvars
    /\ UNCHANGED <<q_items, status, wpc, wheld, presult, saveFails, store, pushes, pops, dropped>>
    /\ UNCHANGED pops_paused

\* try_push that gives up while one permit is still available.
TryPushFullEarly(p) ==
    /\ ppc[p] = "idle" /\ nextId <= MaxBlocks
    /\ permits <= 1
    /\ TryFails < MaxTryFails
    /\ presult' = [presult EXCEPT ![p] = "false"]
    /\ try_log' = Append(try_log, FALSE)
    /\ UNCHANGED nonqvars
    /\ UNCHANGED <<q_items, permits, status, wpc, wheld, ppc, pblk, nextId, saveFails,
                   store, pushes, pops, dropped>>
    /\ UNCHANGED pushed_by
    /\ UNCHANGED pops_paused

\* try_acquire failed: try_push returns false, the block is dropped by the callee.
TryPushFull(p) ==
    /\ ppc[p] = "idle" /\ nextId <= MaxBlocks
    /\ permits = 0
    /\ TryFails < MaxTryFails
    /\ presult' = [presult EXCEPT ![p] = "false"]
    /\ try_log' = Append(try_log, FALSE)
    /\ UNCHANGED nonqvars
    /\ UNCHANGED <<q_items, permits, status, wpc, wheld, ppc, pblk, nextId, saveFails,
                   store, pushes, pops, dropped>>
    /\ UNCHANGED pushed_by
    /\ UNCHANGED pops_paused

\* queue.push(block); mem::forget(permit); true
TryPushEnqueue(p) ==
    /\ ppc[p] = "try_enq"
    /\ Enqueue(pblk[p])
    /\ pblk' = [pblk EXCEPT ![p] = NoBlock]
    /\ ppc' = [ppc EXCEPT ![p] = "idle"]
    /\ presult' = [presult EXCEPT ![p] = "true"]
    /\ UNCHANGED nonqvars
    /\ UNCHANGED <<permits, status, wpc, wheld, nextId, saveFails, store, pops, dropped>>
    /\ UNCHANGED try_log
    /\ UNCHANGED pushed_by
    /\ UNCHANGED pops_paused

\* ---- producers: BlockQueue::push ----
\* The call: the task now waits in semaphore.acquire().
PushCall(p) ==
    /\ ppc[p] = "idle" /\ nextId <= MaxBlocks
    /\ pblk' = [pblk EXCEPT ![p] = NewBlock(nextId)]
    /\ pushed_by' = [pushed_by EXCEPT ![nextId] = p]
    /\ nextId' = nextId + 1
    /\ ppc' = [ppc EXCEPT ![p] = "push_wait"]
    /\ UNCHANGED nonqvars
    /\ UNCHANGED <<q_items, permits, status, wpc, wheld, presult, saveFails, store,
                   pushes, pops, dropped>>
    /\ UNCHANGED try_log
    /\ UNCHANGED pops_paused

\* semaphore.acquire().await returns a permit.
PushAcquire(p) ==
    /\ ppc[p] = "push_wait"
    /\ AcquirePermit
    /\ ppc' = [ppc EXCEPT ![p] = "push_enq"]
    /\ UNCHANGED nonqvars
    /\ UNCHANGED <<q_items, status, wpc, wheld, pblk, presult, nextId, saveFails, store,
                   pushes, pops, dropped>>
    /\ UNCHANGED try_log
    /\ UNCHANGED pushed_by
    /\ UNCHANGED pops_paused

\* queue.push(block); mem::forget(permit); Ok(())
PushEnqueue(p) ==
    /\ ppc[p] = "push_enq"
    /\ Enqueue(pblk[p])
    /\ pblk' = [pblk EXCEPT ![p] = NoBlock]
    /\ ppc' = [ppc EXCEPT ![p] = "idle"]
    /\ UNCHANGED nonqvars
    /\ UNCHANGED <<permits, status, wpc, wheld, presult, nextId, saveFails, store, pops, dropped>>
    /\ UNCHANGED try_log
    /\ UNCHANGED pushed_by
    /\ UNCHANGED pops_paused

(***************************************************************************)
(* BlockProcessor: start / pause / resume / stop                           *)
(***************************************************************************)
\* start(): status := Running, and one more worker_loop task is spawned.
ProcStart ==
    /\ \E w \in Writers :
        /\ wpc[w] = "unspawned"
        /\ \A v \in Writers : v < w => wpc[v] # "unspawned"
        /\ wpc' = [wpc EXCEPT ![w] = "check"]
    /\ status' = "Running"
    /\ UNCHANGED nonqvars
    /\ UNCHANGED <<q_items, permits, wheld, ppc, pblk, presult, nextId, saveFails, store,
                   pushes, pops, dropped>>
    /\ UNCHANGED try_log
    /\ UNCHANGED pushed_by
    /\ pops_paused' = [v \in Writers |-> 0]

ProcPause ==
    /\ status = "Running"
    /\ status' = "Paused"
    /\ UNCHANGED nonqvars
    /\ UNCHANGED <<q_items, permits, wpc, wheld, ppc, pblk, presult, nextId, saveFails,
                   store, pushes, pops, dropped>>
    /\ UNCHANGED try_log
    /\ UNCHANGED pushed_by
    /\ pops_paused' = [v \in Writers |-> 0]

ProcResume ==
    /\ status = "Paused"
    /\ status' = "Running"
    /\ UNCHANGED nonqvars
    /\ UNCHANGED <<q_items, permits, wpc, wheld, ppc, pblk, presult, nextId, saveFails,
                   store, pushes, pops, dropped>>
    /\ UNCHANGED try_log
    /\ UNCHANGED pushed_by
    /\ pops_paused' = [v \in Writers |-> 0]

ProcStop ==
    /\ status # "Stopped"
    /\ status' = "Stopped"
    /\ UNCHANGED nonqvars
    /\ UNCHANGED <<q_items, permits, wpc, wheld, ppc, pblk, presult, nextId, saveFails,
                   store, pushes, pops, dropped>>
    /\ UNCHANGED try_log
    /\ UNCHANGED pushed_by
    /\ pops_paused' = [v \in Writers |-> 0]

(***************************************************************************)
(* BlockProcessor::worker_loop                                             *)
(***************************************************************************)
\* A status check that treats Paused as Running.
WCheckStatusIgnoresPause(w) ==
    /\ wpc[w] = "check"
    /\ wpc' = [wpc EXCEPT ![w] = CASE status = "Stopped" -> "drain"
                                   [] OTHER -> "pop"]
    /\ UNCHANGED nonqvars
    /\ UNCHANGED <<q_items, permits, status, wheld, ppc, pblk, presult, nextId, saveFails,
                   store, pushes, pops, dropped>>
    /\ UNCHANGED try_log
    /\ UNCHANGED pushed_by
    /\ UNCHANGED pops_paused

\* let current_status = *status.lock().await; match current_status { ... }
WCheckStatus(w) ==
    /\ wpc[w] = "check"
    /\ wpc' = [wpc EXCEPT ![w] = CASE status = "Stopped" -> "drain"
                                   [] status = "Paused" -> "check"
                                   [] OTHER -> "pop"]
    /\ UNCHANGED nonqvars
    /\ UNCHANGED <<q_items, permits, status, wheld, ppc, pblk, presult, nextId, saveFails,
                   store, pushes, pops, dropped>>
    /\ UNCHANGED try_log
    /\ UNCHANGED pushed_by
    /\ UNCHANGED pops_paused

\* try_pop with add_permits(1) moved out of the Some arm: an empty pop releases too.
WTryPopAlwaysReleases(w) ==
    /\ wpc[w] = "pop"
    /\ IF q_items # <<>>
       THEN /\ Dequeue
            /\ wheld' = [wheld EXCEPT ![w] = Head(q_items)]
            /\ wpc' = [wpc EXCEPT ![w] = "release"]
            /\ UNCHANGED permits
       ELSE /\ ReleasePermit
            /\ wpc' = [wpc EXCEPT ![w] = "check"]
            /\ UNCHANGED <<q_items, pops, wheld>>
    /\ UNCHANGED nonqvars
    /\ UNCHANGED <<status, ppc, pblk, presult, nextId, saveFails, store, pushes, dropped>>
    /\ UNCHANGED try_log
    /\ UNCHANGED pushed_by
    /\ pops_paused' = IF q_items # <<>> /\ status = "Paused"
                       THEN [pops_paused EXCEPT ![w] = @ + 1]
                       ELSE pops_paused

\* try_pop, first half: self.queue.pop()
WTryPop(w) ==
    /\ wpc[w] = "pop"
    /\ IF q_items # <<>>
       THEN /\ Dequeue
            /\ wheld' = [wheld EXCEPT ![w] = Head(q_items)]
            /\ wpc' = [wpc EXCEPT ![w] = "release"]
       ELSE /\ wpc' = [wpc EXCEPT ![w] = "check"]
            /\ UNCHANGED <<q_items, pops, wheld>>
    /\ UNCHANGED nonqvars
    /\ UNCHANGED <<permits, status, ppc, pblk, presult, nextId, saveFails, store, pushes, dropped>>
    /\ UNCHANGED try_log
    /\ UNCHANGED pushed_by
    /\ pops_paused' = IF q_items # <<>> /\ status = "Paused"
                       THEN [pops_paused EXCEPT ![w] = @ + 1]
                       ELSE pops_paused

\* try_pop that releases two permits for one block.
WReleaseTwo(w) ==
    /\ wpc[w] = "release"
    /\ permits' = permits + 2
    /\ wpc' = [wpc EXCEPT ![w] = "save"]
    /\ UNCHANGED nonqvars
    /\ UNCHANGED <<q_items, status, wheld, ppc, pblk, presult, nextId, saveFails, store,
                   pushes, pops, dropped>>
    /\ UNCHANGED try_log
    /\ UNCHANGED pushed_by
    /\ UNCHANGED pops_paused

\* try_pop, second half: self.semaphore.add_permits(1); Some(block)
WRelease(w) ==
    /\ wpc[w] = "release"
    /\ ReleasePermit
    /\ wpc' = [wpc EXCEPT ![w] = "save"]
    /\ UNCHANGED nonqvars
    /\ UNCHANGED <<q_items, status, wheld, ppc, pblk, presult, nextId, saveFails, store,
                   pushes, pops, dropped>>
    /\ UNCHANGED try_log
    /\ UNCHANGED pushed_by
    /\ UNCHANGED pops_paused

\* db.save_block(&block) returns Ok: the block is dropped at the end of the arm.
WSaveOk(w) ==
    /\ wpc[w] = "save"
    /\ store' = store \cup {wheld[w].number}
    /\ wheld' = [wheld EXCEPT ![w] = NoBlock]
    /\ wpc' = [wpc EXCEPT ![w] = "check"]
    /\ UNCHANGED nonqvars
    /\ UNCHANGED <<q_items, permits, status, ppc, pblk, presult, nextId, saveFails,
                   pushes, pops, dropped>>
    /\ UNCHANGED try_log
    /\ UNCHANGED pushed_by
    /\ UNCHANGED pops_paused

\* db.save_block(&block) returns Err: queue.try_push(block) follows.
WSaveErr(w) ==
    /\ wpc[w] = "save"
    /\ saveFails < MaxSaveFailures
    /\ saveFails' = saveFails + 1
    /\ wpc' = [wpc EXCEPT ![w] = "requeue"]
    /\ UNCHANGED nonqvars
    /\ UNCHANGED <<q_items, permits, status, wheld, ppc, pblk, presult, nextId, store,
                   pushes, pops, dropped>>
    /\ UNCHANGED try_log
    /\ UNCHANGED pushed_by
    /\ UNCHANGED pops_paused

\* A re-enqueue that pushes the block although no permit is left.
WRequeueForcesPush(w) ==
    /\ wpc[w] = "requeue"
    /\ IF permits > 0
       THEN /\ AcquirePermit
            /\ wpc' = [wpc EXCEPT ![w] = "requeue_enq"]
            /\ UNCHANGED <<wheld, dropped>>
       ELSE /\ wpc' = [wpc EXCEPT ![w] = "requeue_enq"]
            /\ UNCHANGED <<wheld, dropped, permits>>
    /\ UNCHANGED nonqvars
    /\ UNCHANGED <<q_items, status, ppc, pblk, presult, nextId, saveFails, store, pushes, pops>>
    /\ UNCHANGED try_log
    /\ UNCHANGED pushed_by
    /\ UNCHANGED pops_paused

\* queue.try_push(block): try_acquire; on Err the block is dropped and logged.
WRequeueTryPush(w) ==
    /\ wpc[w] = "requeue"
    /\ IF permits > 0
       THEN /\ AcquirePermit
            /\ wpc' = [wpc EXCEPT ![w] = "requeue_enq"]
            /\ UNCHANGED <<wheld, dropped>>
       ELSE /\ dropped' = dropped \cup {wheld[w].id}
            /\ wheld' = [wheld EXCEPT ![w] = NoBlock]
            /\ wpc' = [wpc EXCEPT ![w] = "check"]
            /\ UNCHANGED permits
    /\ UNCHANGED nonqvars
    /\ UNCHANGED <<q_items, status, ppc, pblk, presult, nextId, saveFails, store, pushes, pops>>
    /\ UNCHANGED try_log
    /\ UNCHANGED pushed_by
    /\ UNCHANGED pops_paused

\* The block moves into the queue; the worker keeps it, as if a clone had been pushed.
WRequeueEnqueueKeeps(w) ==
    /\ wpc[w] = "requeue_enq"
    /\ Enqueue(wheld[w])
    /\ wpc' = [wpc EXCEPT ![w] = "check"]
    /\ UNCHANGED nonqvars
    /\ UNCHANGED <<permits, status, wheld, ppc, pblk, presult, nextId, saveFails, store,
                   pops, dropped>>
    /\ UNCHANGED try_log
    /\ UNCHANGED pushed_by
    /\ UNCHANGED pops_paused

\* queue.try_push(block), second half: the block moves into the queue.
WRequeueEnqueue(w) ==
    /\ wpc[w] = "requeue_enq"
    /\ Enqueue(wheld[w])
    /\ wheld' = [wheld EXCEPT ![w] = NoBlock]
    /\ wpc' = [wpc EXCEPT ![w] = "check"]
    /\ UNCHANGED nonqvars
    /\ UNCHANGED <<permits, status, ppc, pblk, presult, nextId, saveFails, store, pops, dropped>>
    /\ UNCHANGED try_log
    /\ UNCHANGED pushed_by
    /\ UNCHANGED pops_paused

\* After the loop: while let Some(block) = queue.try_pop() { ... }
WDrainPop(w) ==
    /\ wpc[w] = "drain"
    /\ IF q_items # <<>>
       THEN /\ Dequeue
            /\ wheld' = [wheld EXCEPT ![w] = Head(q_items)]
            /\ wpc' = [wpc EXCEPT ![w] = "drain_release"]
       ELSE /\ wpc' = [wpc EXCEPT ![w] = "done"]
            /\ UNCHANGED <<q_items, pops, wheld>>
    /\ UNCHANGED nonqvars
    /\ UNCHANGED <<permits, status, ppc, pblk, presult, nextId, saveFails, store, pushes, dropped>>
    /\ UNCHANGED try_log
    /\ UNCHANGED pushed_by
    /\ UNCHANGED pops_paused

WDrainRelease(w) ==
    /\ wpc[w] = "drain_release"
    /\ ReleasePermit
    /\ wpc' = [wpc EXCEPT ![w] = "drain_save"]
    /\ UNCHANGED nonqvars
    /\ UNCHANGED <<q_items, status, wheld, ppc, pblk, presult, nextId, saveFails, store,
                   pushes, pops, dropped>>
    /\ UNCHANGED try_log
    /\ UNCHANGED pushed_by
    /\ UNCHANGED pops_paused

WDrainSaveOk(w) ==
    /\ wpc[w] = "drain_save"
    /\ store' = store \cup {wheld[w].number}
    /\ wheld' = [wheld EXCEPT ![w] = NoBlock]
    /\ wpc' = [wpc EXCEPT ![w] = "drain"]
    /\ UNCHANGED nonqvars
    /\ UNCHANGED <<q_items, permits, status, ppc, pblk, presult, nextId, saveFails,
                   pushes, pops, dropped>>
    /\ UNCHANGED try_log
    /\ UNCHANGED pushed_by
    /\ UNCHANGED pops_paused

\* In the drain a failed save is only logged.
WDrainSaveErr(w) ==
    /\ wpc[w] = "drain_save"
    /\ saveFails < MaxSaveFailures
    /\ saveFails' = saveFails + 1
    /\ dropped' = dropped \cup {wheld[w].id}
    /\ wheld' = [wheld EXCEPT ![w] = NoBlock]
    /\ wpc' = [wpc EXCEPT ![w] = "drain"]
    /\ UNCHANGED nonqvars
    /\ UNCHANGED <<q_items, permits, status, ppc, pblk, presult, nextId, store, pushes, pops>>
    /\ UNCHANGED try_log
    /\ UNCHANGED pushed_by
    /\ UNCHANGED pops_paused

QNext ==
    \/ \E p \in Producers : TryPushAcquire(p)
    \/ \E p \in Producers : TryPushFull(p)
    \/ \E p \in Producers : TryPushEnqueue(p)
    \/ \E p \in Producers : PushCall(p)
    \/ \E p \in Producers : PushAcquire(p)
    \/ \E p \in Producers : PushEnqueue(p)
    \/ ProcStart
    \/ ProcPause
    \/ ProcResume
    \/ ProcStop
    \/ \E w \in Writers : WCheckStatus(w)
    \/ \E w \in Writers : WTryPop(w)
    \/ \E w \in Writers : WRelease(w)
    \/ \E w \in Writers : WSaveOk(w)
    \/ \E w \in Writers : WSaveErr(w)
    \/ \E w \in Writers : WRequeueTryPush(w)
    \/ \E w \in Writers : WRequeueEnqueue(w)
    \/ \E w \in Writers : WDrainPop(w)
    \/ \E w \in Writers : WDrainRelease(w)
    \/ \E w \in Writers : WDrainSaveOk(w)
    \/ \E w \in Writers : WDrainSaveErr(w)

(***************************************************************************)
(* The workers of the BlockProcessor under a fair scheduler                *)
(***************************************************************************)
\* A status check that goes on popping when the status is Stopped.
WorkerStepIgnoresStop(w) ==
    \/ wpc[w] = "check" /\ status = "Stopped"
         /\ wpc' = [wpc EXCEPT ![w] = "pop"]
         /\ UNCHANGED nonqvars
         /\ UNCHANGED <<q_items, permits, status, wheld, ppc, pblk, presult, nextId,
                        saveFails, store, pushes, pops, dropped, try_log, pushed_by,
                        pops_paused>>
    \/ wpc[w] = "check" /\ status # "Stopped" /\ WCheckStatus(w)
    \/ WTryPop(w)
    \/ WRelease(w)
    \/ WSaveOk(w)
    \/ WSaveErr(w)
    \/ WRequeueTryPush(w)
    \/ WRequeueEnqueue(w)
    \/ WDrainPop(w)
    \/ WDrainRelease(w)
    \/ WDrainSaveOk(w)
    \/ WDrainSaveErr(w)

\* The next step of the worker_loop task w, whatever it is.
WorkerStep(w) ==
    \/ WCheckStatus(w)
    \/ WTryPop(w)
    \/ WRelease(w)
    \/ WSaveOk(w)
    \/ WSaveErr(w)
    \/ WRequeueTryPush(w)
    \/ WRequeueEnqueue(w)
    \/ WDrainPop(w)
    \/ WDrainRelease(w)
    \/ WDrainSaveOk(w)
    \/ WDrainSaveErr(w)

\* Producers that use the blocking push, the four calls of the
\* BlockProcessor, and the workers.
DrainNext ==
    \/ \E p \in Producers : PushCall(p)
    \/ \E p \in Producers : PushAcquire(p)
    \/ \E p \in Producers : PushEnqueue(p)
    \/ ProcStart
    \/ ProcPause
    \/ ProcResume
    \/ ProcStop
    \/ \E w \in Writers : WorkerStep(w)

\* The runtime schedules every spawned task again and again, and the sleeps,
\* lock acquisitions and db.save_block calls of worker_loop return: a worker
\* that can take a step eventually takes one.
WorkersFair == \A w \in Writers : WF_vars(WorkerStep(w))

(***************************************************************************)
(* Shred pipeline: data (etl/src/models.rs)                                *)
(***************************************************************************)
\* Option<T>
None == <<>>
Some(v) == <<v>>
Unwrap(o) == o[1]

BlockNums == (1..MaxBlockNum) \cup {MaxBlockNum + CLEANUP_DISTANCE + 1}
ShredIdxs == 0..MaxShredIdx
\* What the shred with index idx carries: transactions.len() and
\* state_changes.len().
NumTransactions(idx) == idx
NumStateChanges(idx) == MaxShredIdx - idx

\* A Shred as far as the block manager reads it: transactions.len() is ntx,
\* state_changes.len() is nsc.
MkShred(bn, idx, ntx, nsc, ts) ==
    [block_number |-> bn, shred_idx |-> idx, ntx |-> ntx, nsc |-> nsc, timestamp |-> ts]
NoShred == MkShred(0, 0, 0, 0, None)

\* Block::new
BlockNew(number, timestamp) ==
    [number |-> number,
     timestamp |-> timestamp,
     transaction_count |-> 0,
     shred_count |-> 0,
     state_change_count |-> 0,
     first_shred_id |-> None,
     last_shred_id |-> None,
     block_time |-> None,
     first_shred_timestamp |-> None,
     last_shred_timestamp |-> None,
     avg_tps |-> None,
     avg_shred_interval |-> None,
     buffered_shreds |-> <<>>,
     is_persisted |-> FALSE,
     last_update_time |-> timestamp]

\* Block::buffered_count
BufferedCount(b) == Len(b.buffered_shreds)

\* Block::should_persist, read at time t.
ShouldPersist(b, max_buffer_time_secs, max_buffer_size, t) ==
    IF b.is_persisted THEN FALSE
    ELSE IF Len(b.buffered_shreds) >= max_buffer_size THEN TRUE
    ELSE t - b.last_update_time >= max_buffer_time_secs

\* update_with_shred without `self.buffered_shreds.push(shred.clone())`.
UpdateWithShredNoBuffer(b, shred_id, shred, timestamp, t) ==
    [b EXCEPT
       !.transaction_count = @ + shred.ntx,
       !.shred_count = @ + 1,
       !.state_change_count = @ + shred.nsc,
       !.last_update_time = t,
       !.is_persisted = FALSE]

\* The f64 quotient n / d, kept as the pair of its operands.
Quot(n, d) == <<n, d>>
\* Two f64 quotients are the same number.
QuotEq(x, y) == x[1] * y[2] = y[1] * x[2]

\* update_with_shred: avg_shred_interval from the new block_time and shred_count.
AvgShredInterval(block_time_ms, shred_count, old) ==
    IF shred_count > 1 THEN Some(Quot(block_time_ms, shred_count - 1)) ELSE old

\* update_with_shred: avg_tps from the new block_time and transaction_count.
AvgTps(block_time_ms, transaction_count, old) ==
    IF block_time_ms > 0 /\ transaction_count > 0
    THEN Some(Quot(transaction_count * 1000, block_time_ms)) ELSE old

\* Block::update_with_shred, with Utc::now() = t.  Timestamps are in seconds,
\* block_time in milliseconds.
UpdateWithShred(b, shred_id, shred, timestamp, t) ==
    LET newFirst == b.first_shred_id = None \/ shred_id < Unwrap(b.first_shred_id)
        newLast == b.last_shred_id = None \/ shred_id > Unwrap(b.last_shred_id)
        first_ts == IF newFirst THEN Some(timestamp) ELSE b.first_shred_timestamp
        last_ts == IF newLast THEN Some(timestamp) ELSE b.last_shred_timestamp
        block_time_ms == (Unwrap(last_ts) - Unwrap(first_ts)) * 1000
    IN  [b EXCEPT
           !.transaction_count = @ + shred.ntx,
           !.shred_count = @ + 1,
           !.state_change_count = @ + shred.nsc,
           !.first_shred_id = IF newFirst THEN Some(shred_id) ELSE @,
           !.first_shred_timestamp = first_ts,
           !.last_shred_id = IF newLast THEN Some(shred_id) ELSE @,
           !.last_shred_timestamp = last_ts,
           !.block_time = Some(block_time_ms),
           !.avg_tps = AvgTps(block_time_ms, b.transaction_count + shred.ntx, @),
           !.avg_shred_interval = AvgShredInterval(block_time_ms, b.shred_count + 1, @),
           !.buffered_shreds = Append(@, shred),
           !.last_update_time = t,
           !.is_persisted = FALSE]

(***************************************************************************)
(* Shred pipeline: the active-blocks map and the persistence channel       *)
(***************************************************************************)
\* HashMap::insert
MapInsert(m, k, v) == [x \in DOMAIN m \cup {k} |-> IF x = k THEN v ELSE m[x]]
\* HashMap::remove of a set of keys
MapRemove(m, ks) == [x \in DOMAIN m \ ks |-> m[x]]

\* The orders in which iterating a HashMap can yield the elements of S.
IterOrders(S) ==
    {s \in [1..Cardinality(S) -> S] : \A i, j \in 1..Cardinality(S) : i # j => s[i] # s[j]}

\* PersistenceMessage::PersistBlock(block).  `by` and `seq` are not part of the
\* message: they record which caller sent it (the message handler for its
\* seq-th message, the block checker in its seq-th scan).
PersistBlockMsg(b, by, seq) == [kind |-> "PersistBlock", block |-> b, by |-> by, seq |-> seq]

\* persist_block, first half: the tracked block, if any, is marked under the lock.
PersistBlockMark(m, number) ==
    IF number \in DOMAIN m THEN [m EXCEPT ![number].is_persisted = TRUE] ELSE m

\* persist_block, second half: persist_sender.send(PersistBlock(block)).
PersistBlockSend(b, by, seq) == persist_chan' = Append(persist_chan, PersistBlockMsg(b, by, seq))

SInit ==
    /\ now = 0
    /\ active_blocks = <<>>
    /\ duplicate_count = 0
    /\ blocks_dropped_count = 0
    /\ shred_counter = 0
    /\ persist_chan = <<>>
    /\ n_recv = 0
    /\ hpc = "idle"
    /\ h_shred = NoShred
    /\ h_dup = FALSE
    /\ h_to_persist = <<>>
    /\ h_i = 1
    /\ h_buf = None
    /\ cpc = "sleep"
    /\ c_wake = CHECK_INTERVAL_SECS
    /\ c_list = <<>>
    /\ c_i = 1
    /\ c_runs = 0
    /\ c_due = {}
    /\ c_marked = {}

(***************************************************************************)
(* Shred pipeline: process_message (message_handler.rs) and the            *)
(* BlockManager calls it makes, one step per acquisition of a lock or send *)
(* on the channel.                                                         *)
(***************************************************************************)
hvars == <<n_recv, hpc, h_shred, h_dup, h_to_persist, h_i, h_buf>>
cvars == <<cpc, c_wake, c_list, c_i, c_runs, c_due, c_marked>>
counters == <<duplicate_count, blocks_dropped_count, shred_counter>>

\* A duplicate test that looks at the last buffered shred only.
IsDuplicateOfLast(m, shred) ==
    /\ shred.block_number \in DOMAIN m
    /\ m[shred.block_number].buffered_shreds # <<>>
    /\ LET buffered == m[shred.block_number].buffered_shreds
       IN  buffered[Len(buffered)].shred_idx = shred.shred_idx

\* add_shred, step 1: some buffered shred of the tracked block has this index.
IsDuplicate(m, shred) ==
    /\ shred.block_number \in DOMAIN m
    /\ \E i \in DOMAIN m[shred.block_number].buffered_shreds :
          m[shred.block_number].buffered_shreds[i].shred_idx = shred.shred_idx

\* add_shred, step 3: the unpersisted blocks with a lower number.
LowerUnpersisted(m, number) ==
    {m[k] : k \in {x \in DOMAIN m : x < number /\ ~m[x].is_persisted}}

\* A shred message is parsed and stamped with the current time.
HReceive(bn, idx) ==
    /\ hpc = "idle" /\ n_recv < MaxShreds
    /\ n_recv' = n_recv + 1
    /\ h_shred' = MkShred(bn, idx, NumTransactions(idx), NumStateChanges(idx), Some(now))
    /\ h_dup' = FALSE
    /\ h_to_persist' = <<>>
    /\ h_i' = 1
    /\ h_buf' = None
    /\ hpc' = "add_shred"
    /\ UNCHANGED nonsvars
    /\ UNCHANGED <<now, active_blocks, persist_chan, counters, cvars>>

\* A regular path that starts the block afresh with every shred.
HAddShredRegularRestarts ==
    /\ hpc = "add_shred" /\ ~IsDuplicate(active_blocks, h_shred)
    /\ LET number == h_shred.block_number
           ts == Unwrap(h_shred.timestamp)
       IN  /\ \E order \in IterOrders(LowerUnpersisted(active_blocks, number)) :
                 /\ h_to_persist' = order
                 /\ hpc' = IF order = <<>> THEN "buf_check" ELSE "persist_mark"
           /\ active_blocks' = MapInsert(active_blocks, number,
                                   UpdateWithShred(BlockNew(number, ts), h_shred.shred_idx,
                                                   h_shred, ts, now))
    /\ h_dup' = FALSE
    /\ UNCHANGED nonsvars
    /\ UNCHANGED <<now, persist_chan, counters, cvars, n_recv, h_shred, h_i, h_buf>>

\* add_shred finding no duplicate: one critical section.
HAddShredRegular ==
    /\ hpc = "add_shred" /\ ~IsDuplicate(active_blocks, h_shred)
    /\ LET number == h_shred.block_number
           ts == Unwrap(h_shred.timestamp)
           block == IF number \in DOMAIN active_blocks
                    THEN active_blocks[number] ELSE BlockNew(number, ts)
       IN  /\ \E order \in IterOrders(LowerUnpersisted(active_blocks, number)) :
                 /\ h_to_persist' = order
                 /\ hpc' = IF order = <<>> THEN "buf_check" ELSE "persist_mark"
           /\ active_blocks' = MapInsert(active_blocks, number,
                                   UpdateWithShred(block, h_shred.shred_idx, h_shred, ts, now))
    /\ h_dup' = FALSE
    /\ UNCHANGED nonsvars
    /\ UNCHANGED <<now, persist_chan, counters, cvars, n_recv, h_shred, h_i, h_buf>>

\* add_shred finding a duplicate: the lock is dropped.
HAddShredDuplicate ==
    /\ hpc = "add_shred" /\ IsDuplicate(active_blocks, h_shred)
    /\ h_dup' = TRUE
    /\ hpc' = "dup_count"
    /\ UNCHANGED nonsvars
    /\ UNCHANGED <<now, active_blocks, persist_chan, counters, cvars, n_recv, h_shred,
                   h_to_persist, h_i, h_buf>>

\* add_shred, duplicate: the two counters, each under its own lock.
HDupCount ==
    /\ hpc = "dup_count"
    /\ duplicate_count' = duplicate_count + 1
    /\ blocks_dropped_count' = blocks_dropped_count + 1
    /\ hpc' = "dup_reset"
    /\ UNCHANGED nonsvars
    /\ UNCHANGED <<now, active_blocks, persist_chan, shred_counter, cvars, n_recv, h_shred,
                   h_dup, h_to_persist, h_i, h_buf>>

\* The reset that forgets to remove the old block's buffer.
HDupResetKeeps ==
    /\ hpc = "dup_reset"
    /\ LET number == h_shred.block_number
           ts == Unwrap(h_shred.timestamp)
           block == IF number \in DOMAIN active_blocks
                    THEN active_blocks[number] ELSE BlockNew(number, ts)
       IN  active_blocks' = MapInsert(active_blocks, number,
                                UpdateWithShred(block, h_shred.shred_idx, h_shred, ts, now))
    /\ hpc' = "buf_check"
    /\ UNCHANGED nonsvars
    /\ UNCHANGED <<now, persist_chan, counters, cvars, n_recv, h_shred, h_dup,
                   h_to_persist, h_i, h_buf>>

\* add_shred, duplicate: the lock is taken again, the block is removed and a
\* new one holding only this shred is inserted; add_shred returns Vec::new().
HDupReset ==
    /\ hpc = "dup_reset"
    /\ LET number == h_shred.block_number
           ts == Unwrap(h_shred.timestamp)
       IN  active_blocks' = MapInsert(MapRemove(active_blocks, {number}), number,
                                UpdateWithShred(BlockNew(number, ts), h_shred.shred_idx,
                                                h_shred, ts, now))
    /\ hpc' = "buf_check"
    /\ UNCHANGED nonsvars
    /\ UNCHANGED <<now, persist_chan, counters, cvars, n_recv, h_shred, h_dup,
                   h_to_persist, h_i, h_buf>>

\* persist_block of the next completed block: the mark.
HPersistMark ==
    /\ hpc = "persist_mark"
    /\ active_blocks' = PersistBlockMark(active_blocks, h_to_persist[h_i].number)
    /\ hpc' = "persist_send"
    /\ UNCHANGED nonsvars
    /\ UNCHANGED <<now, persist_chan, counters, cvars, n_recv, h_shred, h_dup,
                   h_to_persist, h_i, h_buf>>

\* The loop that skips sending the completed block.
HPersistSendSkips ==
    /\ hpc = "persist_send"
    /\ h_i' = h_i + 1
    /\ hpc' = IF h_i < Len(h_to_persist) THEN "persist_mark" ELSE "buf_check"
    /\ UNCHANGED nonsvars
    /\ UNCHANGED <<now, active_blocks, persist_chan, counters, cvars, n_recv, h_shred, h_dup,
                   h_to_persist, h_buf>>

\* persist_block of the next completed block: the send.
HPersistSend ==
    /\ hpc = "persist_send"
    /\ PersistBlockSend(h_to_persist[h_i], "ingest", n_recv)
    /\ h_i' = h_i + 1
    /\ hpc' = IF h_i < Len(h_to_persist) THEN "persist_mark" ELSE "buf_check"
    /\ UNCHANGED nonsvars
    /\ UNCHANGED <<now, active_blocks, counters, cvars, n_recv, h_shred, h_dup,
                   h_to_persist, h_buf>>

\* check_buffer_limit, first critical section: should_persist_immediately.
HCheckBufferLimit ==
    /\ hpc = "buf_check"
    /\ LET number == h_shred.block_number
           should_persist_immediately ==
               IF number \in DOMAIN active_blocks
               THEN BufferedCount(active_blocks[number]) >= MAX_BUFFER_SIZE
               ELSE FALSE
       IN  hpc' = IF should_persist_immediately THEN "buf_clone" ELSE "count"
    /\ UNCHANGED nonsvars
    /\ UNCHANGED <<now, active_blocks, persist_chan, counters, cvars, n_recv, h_shred, h_dup,
                   h_to_persist, h_i, h_buf>>

\* check_buffer_limit, second critical section: blocks.get(&block_number).cloned().
HCheckBufferLimitClone ==
    /\ hpc = "buf_clone"
    /\ LET number == h_shred.block_number
       IN  IF number \in DOMAIN active_blocks
           THEN h_buf' = Some(active_blocks[number]) /\ hpc' = "buf_mark"
           ELSE h_buf' = None /\ hpc' = "count"
    /\ UNCHANGED nonsvars
    /\ UNCHANGED <<now, active_blocks, persist_chan, counters, cvars, n_recv, h_shred, h_dup,
                   h_to_persist, h_i>>

\* persist_block of the block that reached the buffer limit: the mark.
HBufferMark ==
    /\ hpc = "buf_mark"
    /\ active_blocks' = PersistBlockMark(active_blocks, Unwrap(h_buf).number)
    /\ hpc' = "buf_send"
    /\ UNCHANGED nonsvars
    /\ UNCHANGED <<now, persist_chan, counters, cvars, n_recv, h_shred, h_dup,
                   h_to_persist, h_i, h_buf>>

\* persist_block of the block that reached the buffer limit: the send.
HBufferSend ==
    /\ hpc = "buf_send"
    /\ PersistBlockSend(Unwrap(h_buf), "buffer", n_recv)
    /\ hpc' = "count"
    /\ UNCHANGED nonsvars
    /\ UNCHANGED <<now, active_blocks, counters, cvars, n_recv, h_shred, h_dup,
                   h_to_persist, h_i, h_buf>>

\* The shred counter is incremented; process_message returns.
HCount ==
    /\ hpc = "count"
    /\ shred_counter' = shred_counter + 1
    /\ hpc' = "idle"
    /\ UNCHANGED nonsvars
    /\ UNCHANGED <<now, active_blocks, persist_chan, duplicate_count, blocks_dropped_count,
                   cvars, n_recv, h_shred, h_dup, h_to_persist, h_i, h_buf>>

(***************************************************************************)
(* Shred pipeline: the block checker task (processor.rs,                   *)
(* spawn_block_checker) and the two scans it runs.                         *)
(***************************************************************************)
Max(S) == CHOOSE x \in S : \A y \in S : y <= x

\* A block that is due for the time-based flush at time t.
TimeDue(b, t) == ~b.is_persisted /\ t - b.last_update_time >= BUFFER_TIME_SECS

\* find_stale_blocks: the keys it collects in to_complete.
StaleKeys(m, t) ==
    {k \in DOMAIN m : /\ m[k].last_shred_timestamp # None
                      /\ Unwrap(m[k].last_shred_timestamp) < t - STALE_SECS
                      /\ ~m[k].is_persisted}

\* find_blocks_by_buffer_criteria: the old persisted blocks it removes.
OldPersistedKeys(m) ==
    LET highest_block == IF DOMAIN m = {} THEN 0 ELSE Max(DOMAIN m)
    IN  {k \in DOMAIN m : k < highest_block - CLEANUP_DISTANCE /\ m[k].is_persisted}

\* The sleep is over: find_stale_blocks removes the stale blocks from the map
\* and returns their clones.
CFindStale ==
    /\ cpc = "sleep" /\ now >= c_wake
    /\ LET stale == StaleKeys(active_blocks, now)
       IN  /\ \E order \in IterOrders({active_blocks[k] : k \in stale}) : c_list' = order
           /\ active_blocks' = MapRemove(active_blocks, stale)
           /\ c_due' = {active_blocks[k] : k \in {x \in stale : TimeDue(active_blocks[x], now)}}
           /\ cpc' = IF stale = {} THEN "criteria" ELSE "stale_mark"
    /\ c_i' = 1
    /\ c_runs' = c_runs + 1
    /\ c_marked' = {}
    /\ UNCHANGED nonsvars
    /\ UNCHANGED <<now, persist_chan, counters, hvars, c_wake>>

\* find_blocks_by_buffer_criteria whose time test is `>` instead of `>=`.
CFindCriteriaStrict ==
    /\ cpc = "criteria"
    /\ LET kept == MapRemove(active_blocks, OldPersistedKeys(active_blocks))
           to_persist == {kept[k] : k \in {x \in DOMAIN kept :
                              /\ ~kept[x].is_persisted
                              /\ ShouldPersist(kept[x], BUFFER_TIME_SECS + 1, MAX_BUFFER_SIZE, now)}}
       IN  /\ active_blocks' = kept
           /\ \E order \in IterOrders(to_persist) : c_list' = order
           /\ c_due' = c_due \cup {kept[k] : k \in {x \in DOMAIN kept : TimeDue(kept[x], now)}}
           /\ IF to_persist = {}
              THEN cpc' = "sleep" /\ c_wake' = now + CHECK_INTERVAL_SECS
              ELSE cpc' = "flush_mark" /\ UNCHANGED c_wake
    /\ c_i' = 1
    /\ UNCHANGED nonsvars
    /\ UNCHANGED <<now, persist_chan, counters, hvars, c_runs, c_marked>>

\* find_blocks_by_buffer_criteria: old persisted blocks are removed, the
\* unpersisted blocks that should_persist are cloned.
CFindCriteria ==
    /\ cpc = "criteria"
    /\ LET kept == MapRemove(active_blocks, OldPersistedKeys(active_blocks))
           to_persist == {kept[k] : k \in {x \in DOMAIN kept :
                              /\ ~kept[x].is_persisted
                              /\ ShouldPersist(kept[x], BUFFER_TIME_SECS, MAX_BUFFER_SIZE, now)}}
       IN  /\ active_blocks' = kept
           /\ \E order \in IterOrders(to_persist) : c_list' = order
           /\ c_due' = c_due \cup {kept[k] : k \in {x \in DOMAIN kept : TimeDue(kept[x], now)}}
           /\ IF to_persist = {}
              THEN cpc' = "sleep" /\ c_wake' = now + CHECK_INTERVAL_SECS
              ELSE cpc' = "flush_mark" /\ UNCHANGED c_wake
    /\ c_i' = 1
    /\ UNCHANGED nonsvars
    /\ UNCHANGED <<now, persist_chan, counters, hvars, c_runs, c_marked>>

\* persist_block of the next block of the scan: the mark.
CPersistMark ==
    /\ cpc \in {"stale_mark", "flush_mark"}
    /\ LET number == c_list[c_i].number
       IN  /\ active_blocks' = PersistBlockMark(active_blocks, number)
           /\ c_marked' = IF number \in DOMAIN active_blocks
                          THEN c_marked \cup {number} ELSE c_marked
    /\ cpc' = IF cpc = "stale_mark" THEN "stale_send" ELSE "flush_send"
    /\ UNCHANGED nonsvars
    /\ UNCHANGED <<now, persist_chan, counters, hvars, c_wake, c_list, c_i, c_runs, c_due>>

\* persist_block of the next block of the scan: the send.  After the last
\* stale block comes find_blocks_by_buffer_criteria, after the last buffer
\* block the next sleep.
CPersistSend ==
    /\ cpc \in {"stale_send", "flush_send"}
    /\ PersistBlockSend(c_list[c_i], IF cpc = "stale_send" THEN "stale" ELSE "flush", c_runs)
    /\ c_i' = c_i + 1
    /\ IF c_i < Len(c_list)
       THEN cpc' = (IF cpc = "stale_send" THEN "stale_mark" ELSE "flush_mark")
            /\ UNCHANGED c_wake
       ELSE IF cpc = "stale_send"
            THEN cpc' = "criteria" /\ UNCHANGED c_wake
            ELSE cpc' = "sleep" /\ c_wake' = now + CHECK_INTERVAL_SECS
    /\ UNCHANGED nonsvars
    /\ UNCHANGED <<now, active_blocks, counters, hvars, c_list, c_runs, c_due, c_marked>>

\* Time passes while the block checker sleeps and no message is being
\* handled: a sleep that is over wakes the task before the clock moves on, and
\* a message is handled within one step of the clock.
Tick ==
    /\ cpc = "sleep" /\ hpc = "idle" /\ now < c_wake /\ now < MaxTime
    /\ now' = now + ClockStep
    /\ UNCHANGED nonsvars
    /\ UNCHANGED <<active_blocks, persist_chan, counters, hvars, cvars>>

SNext ==
    \/ \E bn \in BlockNums, idx \in ShredIdxs : HReceive(bn, idx)
    \/ HAddShredRegular
    \/ HAddShredDuplicate
    \/ HDupCount
    \/ HDupReset
    \/ HPersistMark
    \/ HPersistSend
    \/ HCheckBufferLimit
    \/ HCheckBufferLimitClone
    \/ HBufferMark
    \/ HBufferSend
    \/ HCount
    \/ CFindStale
    \/ CFindCriteria
    \/ CPersistMark
    \/ CPersistSend
    \/ Tick

(***************************************************************************)
(* Indexer sync: BlockFetcher (fetcher.rs) and HistoricSync (historic.rs). *)
(*                                                                         *)
(* A push to the block queue is recorded in `pushed`: push blocks until    *)
(* there is room and fails only on a closed semaphore, which the program   *)
(* never closes (the queue itself is the subject of SpecQueue).  An RPC    *)
(* call fails when with_retry has used up its retries.                     *)
(***************************************************************************)
Min(a, b) == IF a <= b THEN a ELSE b

Workers == 1..MaxWorkers

\* The bag `pushed`: how many times number k was pushed.
PushCount(bag, k) == IF k \in DOMAIN bag THEN bag[k] ELSE 0
BagPush(bag, k) == [x \in DOMAIN bag \cup {k} |-> IF x = k THEN PushCount(bag, k) + 1 ELSE bag[x]]

\* create_batch_ranges whose batches are not cut at end_block.
RECURSIVE BatchRangesUnclamped(_, _, _, _)
BatchRangesUnclamped(current, end_block, size, batch_idx) ==
    IF current > end_block THEN <<>>
    ELSE LET batch_end == current + size - 1
         IN  <<<<batch_idx, current, batch_end>>>>
                 \o BatchRangesUnclamped(batch_end + 1, end_block, size, batch_idx + 1)

\* create_batch_ranges: the loop, from `current` and `batch_idx` on.
RECURSIVE BatchRanges(_, _, _, _)
BatchRanges(current, end_block, size, batch_idx) ==
    IF current > end_block THEN <<>>
    ELSE LET batch_end == Min(current + size - 1, end_block)
         IN  <<<<batch_idx, current, batch_end>>>>
                 \o BatchRanges(batch_end + 1, end_block, size, batch_idx + 1)

\* create_batch_ranges
CreateBatchRanges(first, end_block) == BatchRanges(first, end_block, rpc_batch_size, 0)

\* SyncState::new(start_block); HistoricSync is not built yet (its settings
\* are 0 until main builds it).
YInit ==
    /\ chain_head = start_block
    /\ batch_size = 0
    /\ rpc_batch_size = 0
    /\ max_concurrent_batches = 0
    /\ latest_synced_block = start_block
    /\ historic_sync_complete = FALSE
    /\ hist_pc = "new"
    /\ hist_start = 0
    /\ hist_end = 0
    /\ hist_current = 0
    /\ hist_batch_end = 0
    /\ work_queue = <<>>
    /\ fw_pc = [w \in Workers |-> "none"]
    /\ fw_batch = [w \in Workers |-> <<>>]
    /\ fw_next = [w \in Workers |-> 0]
    /\ pushed = <<>>
    /\ logged = {}
    /\ failures = 0
    /\ live_pc = "wait"
    /\ ws_stream = <<>>
    /\ last_synced_block = 0
    /\ live_n = 0
    /\ cu_ret = "none"
    /\ cu_current = 0
    /\ cu_end = 0
    /\ cu_batch_size = 0
    /\ cu_tasks = {}
    /\ live_pushed = <<>>
    /\ notif_mark = 0
    /\ in_queue = 0
    /\ wait_elapsed = 0
    /\ batches_completed = 0

config == <<batch_size, rpc_batch_size, max_concurrent_batches>>
syncstate == <<latest_synced_block, historic_sync_complete>>
histvars == <<hist_pc, hist_start, hist_end, hist_current, hist_batch_end>>
fwvars == <<work_queue, fw_pc, fw_batch, fw_next>>
livevars == <<live_pc, ws_stream, last_synced_block, live_n, cu_ret, cu_current, cu_end,
              cu_batch_size, cu_tasks, live_pushed, notif_mark>>

\* main: HistoricSync::new with BATCH_SIZE b, with_rpc_batch_size(r) and
\* with_max_concurrent_batches(w), none of which is validated; the chain head
\* at start-up is `tip`.
MainSetup(b, r, w, tip) ==
    /\ hist_pc = "new"
    /\ batch_size' = b
    /\ rpc_batch_size' = r
    /\ max_concurrent_batches' = w
    /\ chain_head' = tip
    /\ hist_pc' = "start"
    /\ UNCHANGED nonyvars
    /\ UNCHANGED <<syncstate, hist_start, hist_end, hist_current, hist_batch_end, fwvars,
                   pushed, logged, failures, livevars>>
    /\ UNCHANGED in_queue
    /\ UNCHANGED wait_elapsed
    /\ UNCHANGED batches_completed

\* HistoricSync::start: `if start_block >= latest_block_number`.
AlreadyAtLatest(first, latest_block_number) == first >= latest_block_number

\* HistoricSync::start up to the call of process_blocks_concurrent.
HistStart ==
    /\ hist_pc = "start"
    /\ LET latest_block_number == chain_head
           first == latest_synced_block
       IN  /\ hist_start' = first
           /\ hist_end' = latest_block_number
           /\ hist_current' = first
           /\ IF AlreadyAtLatest(first, latest_block_number)
              THEN historic_sync_complete' = TRUE /\ hist_pc' = "done"
              ELSE historic_sync_complete' = FALSE /\ hist_pc' = "loop"
    /\ UNCHANGED nonyvars
    /\ UNCHANGED <<chain_head, config, latest_synced_block, hist_batch_end, fwvars, pushed,
                   logged, failures, livevars>>
    /\ UNCHANGED in_queue
    /\ UNCHANGED wait_elapsed
    /\ UNCHANGED batches_completed

\* HistoricSync::start: get_latest_block_number or BlockFetcher::from_ws_url fails.
HistStartFails ==
    /\ hist_pc = "start" /\ failures < MaxFailures
    /\ failures' = failures + 1
    /\ hist_pc' = "failed"
    /\ UNCHANGED nonyvars
    /\ UNCHANGED <<chain_head, config, syncstate, hist_start, hist_end, hist_current,
                   hist_batch_end, fwvars, pushed, logged, livevars>>
    /\ UNCHANGED in_queue
    /\ UNCHANGED wait_elapsed
    /\ UNCHANGED batches_completed

\* process_blocks_concurrent: the next outer batch; fetch_blocks_range fills
\* the work queue and spawns its workers.
HistBatch ==
    /\ hist_pc = "loop" /\ hist_current <= hist_end
    /\ LET batch_end == Min(hist_current + batch_size - 1, hist_end)
       IN  /\ hist_batch_end' = batch_end
           /\ work_queue' = CreateBatchRanges(hist_current, batch_end)
    /\ fw_pc' = [w \in Workers |-> IF w <= max_concurrent_batches THEN "pop" ELSE "none"]
    /\ fw_batch' = [w \in Workers |-> <<>>]
    /\ fw_next' = [w \in Workers |-> 0]
    /\ hist_pc' = "fetch"
    /\ UNCHANGED nonyvars
    /\ UNCHANGED <<chain_head, config, syncstate, hist_start, hist_end, hist_current, pushed,
                   logged, failures, livevars>>
    /\ UNCHANGED in_queue
    /\ UNCHANGED wait_elapsed
    /\ batches_completed' = 0

\* Worker: queue.pop() takes the last batch of the Vec, or the worker exits.
FWPop(w) ==
    /\ hist_pc = "fetch" /\ fw_pc[w] = "pop"
    /\ IF work_queue = <<>>
       THEN /\ fw_pc' = [fw_pc EXCEPT ![w] = "exit"]
            /\ UNCHANGED <<work_queue, fw_batch>>
       ELSE /\ fw_batch' = [fw_batch EXCEPT ![w] = work_queue[Len(work_queue)]]
            /\ work_queue' = SubSeq(work_queue, 1, Len(work_queue) - 1)
            /\ fw_pc' = [fw_pc EXCEPT ![w] = "rpc"]
    /\ UNCHANGED nonyvars
    /\ UNCHANGED <<chain_head, config, syncstate, histvars, fw_next, pushed, logged, failures,
                   livevars>>
    /\ UNCHANGED in_queue
    /\ UNCHANGED wait_elapsed
    /\ UNCHANGED batches_completed

\* Worker, fetch_batch: fetch_blocks_batch returns the blocks of the batch.
FWFetchBatch(w) ==
    /\ fw_pc[w] = "rpc"
    /\ fw_next' = [fw_next EXCEPT ![w] = fw_batch[w][2]]
    /\ fw_pc' = [fw_pc EXCEPT ![w] = "queue"]
    /\ UNCHANGED nonyvars
    /\ UNCHANGED <<chain_head, config, syncstate, histvars, work_queue, fw_batch, pushed,
                   logged, failures, livevars>>
    /\ UNCHANGED in_queue
    /\ UNCHANGED wait_elapsed
    /\ UNCHANGED batches_completed

\* A worker whose failed batch is not counted as completed.
FWFetchBatchFailsUncounted(w) ==
    /\ fw_pc[w] = "rpc" /\ failures < MaxFailures
    /\ failures' = failures + 1
    /\ logged' = logged \cup (fw_batch[w][2]..fw_batch[w][3])
    /\ fw_pc' = [fw_pc EXCEPT ![w] = "pop"]
    /\ UNCHANGED nonyvars
    /\ UNCHANGED <<chain_head, config, syncstate, histvars, work_queue, fw_batch, fw_next,
                   pushed, livevars>>
    /\ UNCHANGED in_queue
    /\ UNCHANGED wait_elapsed
    /\ UNCHANGED batches_completed

\* Worker, fetch_batch: fetch_blocks_batch fails; the worker logs
\* "Worker {} failed processing batch {}/{}", counts the batch as completed
\* (*completed += 1 in the Err arm) and goes on with the next batch.
FWFetchBatchFails(w) ==
    /\ fw_pc[w] = "rpc" /\ failures < MaxFailures
    /\ failures' = failures + 1
    /\ logged' = logged \cup (fw_batch[w][2]..fw_batch[w][3])
    /\ fw_pc' = [fw_pc EXCEPT ![w] = "pop"]
    /\ UNCHANGED nonyvars
    /\ UNCHANGED <<chain_head, config, syncstate, histvars, work_queue, fw_batch, fw_next,
                   pushed, livevars>>
    /\ UNCHANGED in_queue
    /\ UNCHANGED wait_elapsed
    /\ batches_completed' = batches_completed + 1

\* Worker, fetch_batch: what follows the block fw_next[w] of the batch.
FWAfterBlock(w) ==
    /\ fw_next' = [fw_next EXCEPT ![w] = @ + 1]
    /\ fw_pc' = [fw_pc EXCEPT ![w] = IF fw_next[w] < fw_batch[w][3] THEN "queue" ELSE "pop"]
    /\ batches_completed' = IF fw_next[w] < fw_batch[w][3] THEN batches_completed
                                                            ELSE batches_completed + 1

\* Worker, fetch_batch: the next block is converted and pushed to the queue.
FWQueueBlock(w) ==
    /\ fw_pc[w] = "queue"
    /\ pushed' = BagPush(pushed, fw_next[w])
    /\ in_queue' = in_queue + 1
    /\ FWAfterBlock(w)
    /\ UNCHANGED nonyvars
    /\ UNCHANGED <<chain_head, config, syncstate, histvars, work_queue, fw_batch, logged,
                   failures, livevars>>
    /\ UNCHANGED wait_elapsed

\* Worker, fetch_batch: convert_block fails; "Failed to convert block" is logged.
FWConvertFails(w) ==
    /\ fw_pc[w] = "queue" /\ failures < MaxFailures
    /\ failures' = failures + 1
    /\ logged' = logged \cup {fw_next[w]}
    /\ FWAfterBlock(w)
    /\ UNCHANGED nonyvars
    /\ UNCHANGED <<chain_head, config, syncstate, histvars, work_queue, fw_batch, pushed,
                   livevars>>
    /\ UNCHANGED in_queue
    /\ UNCHANGED wait_elapsed

\* fetch_blocks_range: join_all returns once every spawned worker has exited;
\* the function returns Ok(()) and its counters are dropped.
HistFetchReturn ==
    /\ hist_pc = "fetch"
    /\ \A w \in Workers : fw_pc[w] \in {"none", "exit"}
    /\ hist_pc' = "advance"
    /\ UNCHANGED nonyvars
    /\ UNCHANGED <<chain_head, config, syncstate, hist_start, hist_end, hist_current,
                   hist_batch_end, fwvars, pushed, logged, failures, livevars>>
    /\ UNCHANGED in_queue
    /\ UNCHANGED wait_elapsed
    /\ batches_completed' = 0

\* process_blocks_concurrent after fetch_blocks_range: the watermark and
\* current_block move past the batch.
HistAdvance ==
    /\ hist_pc = "advance"
    /\ latest_synced_block' = hist_batch_end
    /\ hist_current' = hist_batch_end + 1
    /\ hist_pc' = "loop"
    /\ UNCHANGED nonyvars
    /\ UNCHANGED <<chain_head, config, historic_sync_complete, hist_start, hist_end,
                   hist_batch_end, fwvars, pushed, logged, failures, livevars>>
    /\ UNCHANGED in_queue
    /\ UNCHANGED wait_elapsed
    /\ UNCHANGED batches_completed

\* HistoricSync::start: process_blocks_concurrent has returned Ok, the ETA
\* monitor is aborted and wait_for_queue_to_empty starts its clock.
HistWaitBegin ==
    /\ hist_pc = "loop" /\ hist_current > hist_end
    /\ wait_elapsed' = 0
    /\ hist_pc' = "wait"
    /\ UNCHANGED nonyvars
    /\ UNCHANGED <<chain_head, config, syncstate, hist_start, hist_end, hist_current,
                   hist_batch_end, fwvars, pushed, logged, failures, livevars>>
    /\ UNCHANGED in_queue
    /\ UNCHANGED batches_completed

\* The flag is set although the queue still holds blocks.
HistCompleteNoWait ==
    /\ hist_pc = "wait"
    /\ historic_sync_complete' = TRUE
    /\ latest_synced_block' = hist_end
    /\ hist_pc' = "done"
    /\ UNCHANGED nonyvars
    /\ UNCHANGED <<chain_head, config, hist_start, hist_end, hist_current, hist_batch_end,
                   fwvars, pushed, logged, failures, livevars>>
    /\ UNCHANGED in_queue
    /\ wait_elapsed' = 0
    /\ UNCHANGED batches_completed

\* wait_for_queue_to_empty finds is_empty() and returns Ok (its clock goes out
\* of scope); HistoricSync::start marks the backfill complete and returns Ok.
HistComplete ==
    /\ hist_pc = "wait" /\ in_queue = 0
    /\ historic_sync_complete' = TRUE
    /\ latest_synced_block' = hist_end
    /\ hist_pc' = "done"
    /\ UNCHANGED nonyvars
    /\ UNCHANGED <<chain_head, config, hist_start, hist_end, hist_current, hist_batch_end,
                   fwvars, pushed, logged, failures, livevars>>
    /\ UNCHANGED in_queue
    /\ wait_elapsed' = 0
    /\ UNCHANGED batches_completed

\* wait_for_queue_to_empty: the queue is not empty and the ceiling is not
\* passed; sleep, and the next poll is WaitStep seconds later.
HistWaitSleep ==
    /\ hist_pc = "wait" /\ in_queue > 0
    /\ ~(wait_elapsed > MAX_WAIT_SECS)
    /\ wait_elapsed' = wait_elapsed + WaitStep
    /\ UNCHANGED nonyvars
    /\ UNCHANGED <<chain_head, config, syncstate, histvars, fwvars, pushed, logged, failures,
                   livevars>>
    /\ UNCHANGED in_queue
    /\ UNCHANGED batches_completed

\* wait_for_queue_to_empty: the queue is not empty and more than 600 seconds
\* have passed; Err(SyncError::Other), which HistoricSync::start returns.
HistQueueTimeout ==
    /\ hist_pc = "wait" /\ in_queue > 0
    /\ wait_elapsed > MAX_WAIT_SECS
    /\ hist_pc' = "failed_other"
    /\ UNCHANGED nonyvars
    /\ UNCHANGED <<chain_head, config, syncstate, hist_start, hist_end, hist_current,
                   hist_batch_end, fwvars, pushed, logged, failures, livevars>>
    /\ UNCHANGED in_queue
    /\ UNCHANGED wait_elapsed
    /\ UNCHANGED batches_completed

\* A writer of the backfill's BlockProcessor pops a block: try_pop gives the
\* permit back (what the writer does with the block is the subject of
\* SpecQueue).
WriterPop ==
    /\ in_queue > 0
    /\ in_queue' = in_queue - 1
    /\ UNCHANGED nonyvars
    /\ UNCHANGED <<chain_head, config, syncstate, histvars, fwvars, pushed, logged, failures,
                   livevars>>
    /\ UNCHANGED wait_elapsed
    /\ UNCHANGED batches_completed

(***************************************************************************)
(* Indexer sync: the chain and LiveSync (live.rs).  SyncManager::start     *)
(* runs LiveSync::start after HistoricSync::start has returned Ok.         *)
(***************************************************************************)
backfill == <<config, histvars, fwvars, pushed, logged>>

\* The pcs at which the websocket subscription exists.
Subscribed ==
    \/ live_pc \in {"tip", "listen", "head"}
    \/ live_pc \in {"cu_seq", "cu_spawn", "cu_run"} /\ cu_ret \in {"startup", "gap"}

\* The chain produces a block; the subscription delivers its head or skips
\* it.  The backfill reads the chain head once, when it starts, so the chain
\* is let grow after it.
ChainAdvance(deliver) ==
    /\ hist_pc = "done" /\ chain_head < MaxHead
    /\ chain_head' = chain_head + 1
    /\ ws_stream' = IF Subscribed /\ deliver THEN Append(ws_stream, chain_head + 1)
                    ELSE ws_stream
    /\ deliver => Subscribed
    /\ UNCHANGED nonyvars
    /\ UNCHANGED <<backfill, syncstate, failures, live_pc, last_synced_block, live_n, cu_ret,
                   cu_current, cu_end, cu_batch_size, cu_tasks, live_pushed, notif_mark>>
    /\ UNCHANGED in_queue
    /\ UNCHANGED wait_elapsed
    /\ UNCHANGED batches_completed

\* A LiveSync::start that runs beside the backfill and subscribes without
\* reading historic_sync_complete.
LSubscribeEarly ==
    /\ live_pc = "wait" /\ hist_pc # "new"
    /\ ws_stream' = <<>>
    /\ last_synced_block' = latest_synced_block
    /\ live_pc' = "tip"
    /\ UNCHANGED nonyvars
    /\ UNCHANGED <<chain_head, backfill, syncstate, failures, live_n, cu_ret, cu_current,
                   cu_end, cu_batch_size, cu_tasks, live_pushed, notif_mark>>
    /\ UNCHANGED in_queue
    /\ UNCHANGED wait_elapsed
    /\ UNCHANGED batches_completed

\* LiveSync::start: historic_sync_complete is set; start_websocket_subscription
\* connects, subscribes and reads the watermark.
LSubscribe ==
    /\ live_pc = "wait" /\ hist_pc = "done" /\ historic_sync_complete
    /\ ws_stream' = <<>>
    /\ last_synced_block' = latest_synced_block
    /\ live_pc' = "tip"
    /\ UNCHANGED nonyvars
    /\ UNCHANGED <<chain_head, backfill, syncstate, failures, live_n, cu_ret, cu_current,
                   cu_end, cu_batch_size, cu_tasks, live_pushed, notif_mark>>
    /\ UNCHANGED in_queue
    /\ UNCHANGED wait_elapsed
    /\ UNCHANGED batches_completed

\* start_websocket_subscription returns Err: LiveSync::start falls back to
\* start_http_polling, which reads the watermark.
LFallBack ==
    /\ failures < MaxFailures
    /\ failures' = failures + 1
    /\ ws_stream' = <<>>
    /\ last_synced_block' = latest_synced_block
    /\ live_pc' = "poll"

\* start_http_polling returns Err: LiveSync::start starts over.
LRestart ==
    /\ failures < MaxFailures
    /\ failures' = failures + 1
    /\ live_pc' = "wait"
    /\ UNCHANGED <<ws_stream, last_synced_block>>

\* catch_up_blocks(first, last) is entered on behalf of `ret`.
CatchUpEnter(first, last, ret) ==
    /\ cu_ret' = ret
    /\ cu_current' = first
    /\ cu_end' = last
    /\ cu_tasks' = {}
    /\ cu_batch_size' = Min(max_parallel_blocks, last - first + 1)
    /\ live_pc' = IF last - first + 1 <= SEQUENTIAL_LIMIT THEN "cu_seq" ELSE "cu_spawn"

\* catch_up_blocks has returned Ok(()) to the caller cu_ret.
CatchUpReturn ==
    /\ IF cu_ret = "gap"
       THEN /\ live_pc' = "head"
            /\ UNCHANGED <<last_synced_block, latest_synced_block>>
       ELSE /\ live_pc' = IF cu_ret = "startup" THEN "listen" ELSE "poll"
            /\ last_synced_block' = cu_end
            /\ latest_synced_block' = cu_end
    /\ UNCHANGED historic_sync_complete

\* Ws::connect or subscribe_blocks fails.
LSubscribeFails ==
    /\ live_pc = "wait" /\ hist_pc = "done" /\ historic_sync_complete
    /\ LFallBack
    /\ UNCHANGED nonyvars
    /\ UNCHANGED <<chain_head, backfill, syncstate, live_n, cu_ret, cu_current, cu_end,
                   cu_batch_size, cu_tasks, live_pushed, notif_mark>>
    /\ UNCHANGED in_queue
    /\ UNCHANGED wait_elapsed
    /\ UNCHANGED batches_completed

\* start_websocket_subscription: the chain head is read; a gap of more than
\* one block is caught up first.
LStartupTip ==
    /\ live_pc = "tip"
    /\ LET current_block == chain_head
       IN  IF current_block > last_synced_block + 1
           THEN CatchUpEnter(last_synced_block + 1, current_block, "startup")
           ELSE /\ live_pc' = "listen"
                /\ UNCHANGED <<cu_ret, cu_current, cu_end, cu_batch_size, cu_tasks>>
    /\ UNCHANGED nonyvars
    /\ UNCHANGED <<chain_head, backfill, syncstate, failures, ws_stream, last_synced_block,
                   live_n, live_pushed, notif_mark>>
    /\ UNCHANGED in_queue
    /\ UNCHANGED wait_elapsed
    /\ UNCHANGED batches_completed

\* start_websocket_subscription: get_latest_block_number fails.
LStartupTipFails ==
    /\ live_pc = "tip"
    /\ LFallBack
    /\ UNCHANGED nonyvars
    /\ UNCHANGED <<chain_head, backfill, syncstate, live_n, cu_ret, cu_current, cu_end,
                   cu_batch_size, cu_tasks, live_pushed, notif_mark>>
    /\ UNCHANGED in_queue
    /\ UNCHANGED wait_elapsed
    /\ UNCHANGED batches_completed

\* catch_up_blocks, sequential path: process_block fetches, converts and
\* pushes the next block; after the last one catch_up_blocks returns.
LCatchUpSeq ==
    /\ live_pc = "cu_seq"
    /\ live_pushed' = Append(live_pushed, cu_current)
    /\ cu_current' = cu_current + 1
    /\ IF cu_current < cu_end
       THEN UNCHANGED <<live_pc, syncstate, last_synced_block>>
       ELSE CatchUpReturn
    /\ UNCHANGED nonyvars
    /\ UNCHANGED <<chain_head, backfill, failures, ws_stream, live_n, cu_ret, cu_end,
                   cu_batch_size, cu_tasks, notif_mark>>
    /\ UNCHANGED in_queue
    /\ UNCHANGED wait_elapsed
    /\ UNCHANGED batches_completed

\* catch_up_blocks, sequential path: process_block returns Err, which `?`
\* hands to the caller of catch_up_blocks and on to LiveSync::start.
LCatchUpSeqFails ==
    /\ live_pc = "cu_seq"
    /\ IF cu_ret = "poll" THEN LRestart ELSE LFallBack
    /\ UNCHANGED nonyvars
    /\ UNCHANGED <<chain_head, backfill, syncstate, live_n, cu_ret, cu_current, cu_end,
                   cu_batch_size, cu_tasks, live_pushed, notif_mark>>
    /\ UNCHANGED in_queue
    /\ UNCHANGED wait_elapsed
    /\ UNCHANGED batches_completed

\* catch_up_blocks, parallel path: the tasks of the next chunk are spawned.
LCatchUpSpawn ==
    /\ live_pc = "cu_spawn"
    /\ LET batch_end == Min(cu_current + cu_batch_size - 1, cu_end)
       IN  cu_tasks' = cu_current..batch_end
    /\ live_pc' = "cu_run"
    /\ UNCHANGED nonyvars
    /\ UNCHANGED <<chain_head, backfill, syncstate, failures, ws_stream, last_synced_block,
                   live_n, cu_ret, cu_current, cu_end, cu_batch_size, live_pushed, notif_mark>>
    /\ UNCHANGED in_queue
    /\ UNCHANGED wait_elapsed
    /\ UNCHANGED batches_completed

\* catch_up_blocks, parallel path: the task of block k runs process_block,
\* which fetches, converts and pushes the block.
LCatchUpTask(k) ==
    /\ live_pc = "cu_run" /\ k \in cu_tasks
    /\ live_pushed' = Append(live_pushed, k)
    /\ cu_tasks' = cu_tasks \ {k}
    /\ UNCHANGED nonyvars
    /\ UNCHANGED <<chain_head, backfill, syncstate, failures, live_pc, ws_stream,
                   last_synced_block, live_n, cu_ret, cu_current, cu_end, cu_batch_size,
                   notif_mark>>
    /\ UNCHANGED in_queue
    /\ UNCHANGED wait_elapsed
    /\ UNCHANGED batches_completed

\* catch_up_blocks, parallel path: process_block of block k returns Err; the
\* task logs "Failed to process block" and join_all's loop logs "Error
\* processing block".
LCatchUpTaskFails(k) ==
    /\ live_pc = "cu_run" /\ k \in cu_tasks
    /\ failures < MaxFailures
    /\ failures' = failures + 1
    /\ cu_tasks' = cu_tasks \ {k}
    /\ UNCHANGED nonyvars
    /\ UNCHANGED <<chain_head, backfill, syncstate, live_pc, ws_stream, last_synced_block,
                   live_n, cu_ret, cu_current, cu_end, cu_batch_size, live_pushed, notif_mark>>
    /\ UNCHANGED in_queue
    /\ UNCHANGED wait_elapsed
    /\ UNCHANGED batches_completed

\* catch_up_blocks, parallel path: join_all has returned; the next chunk
\* follows, or catch_up_blocks returns Ok(()).
LCatchUpJoin ==
    /\ live_pc = "cu_run" /\ cu_tasks = {}
    /\ LET batch_end == Min(cu_current + cu_batch_size - 1, cu_end)
       IN  /\ cu_current' = batch_end + 1
           /\ IF batch_end + 1 <= cu_end
              THEN live_pc' = "cu_spawn" /\ UNCHANGED <<syncstate, last_synced_block>>
              ELSE CatchUpReturn
    /\ UNCHANGED nonyvars
    /\ UNCHANGED <<chain_head, backfill, failures, ws_stream, live_n, cu_ret, cu_end,
                   cu_batch_size, cu_tasks, live_pushed, notif_mark>>
    /\ UNCHANGED in_queue
    /\ UNCHANGED wait_elapsed
    /\ UNCHANGED batches_completed

\* start_websocket_subscription: the next head is read from the stream; a gap
\* to the last synced block is caught up first.
LNotify ==
    /\ live_pc = "listen" /\ ws_stream # <<>>
    /\ LET block_number == Head(ws_stream)
       IN  /\ live_n' = block_number
           /\ IF block_number > last_synced_block + 1
              THEN CatchUpEnter(last_synced_block + 1, block_number - 1, "gap")
              ELSE /\ live_pc' = "head"
                   /\ UNCHANGED <<cu_ret, cu_current, cu_end, cu_batch_size, cu_tasks>>
    /\ ws_stream' = Tail(ws_stream)
    /\ notif_mark' = Len(live_pushed)
    /\ UNCHANGED nonyvars
    /\ UNCHANGED <<chain_head, backfill, syncstate, failures, last_synced_block, live_pushed>>
    /\ UNCHANGED in_queue
    /\ UNCHANGED wait_elapsed
    /\ UNCHANGED batches_completed

\* start_websocket_subscription: the block of the notification is fetched,
\* converted and pushed; the watermark is set to its number.
LProcessHead ==
    /\ live_pc = "head"
    /\ live_pushed' = Append(live_pushed, live_n)
    /\ last_synced_block' = live_n
    /\ latest_synced_block' = live_n
    /\ live_pc' = "listen"
    /\ UNCHANGED nonyvars
    /\ UNCHANGED <<chain_head, backfill, historic_sync_complete, failures, ws_stream, live_n,
                   cu_ret, cu_current, cu_end, cu_batch_size, cu_tasks, notif_mark>>
    /\ UNCHANGED in_queue
    /\ UNCHANGED wait_elapsed
    /\ UNCHANGED batches_completed

\* start_websocket_subscription: get_block of the notification's block fails.
LProcessHeadFails ==
    /\ live_pc = "head"
    /\ LFallBack
    /\ UNCHANGED nonyvars
    /\ UNCHANGED <<chain_head, backfill, syncstate, live_n, cu_ret, cu_current, cu_end,
                   cu_batch_size, cu_tasks, live_pushed, notif_mark>>
    /\ UNCHANGED in_queue
    /\ UNCHANGED wait_elapsed
    /\ UNCHANGED batches_completed

\* start_http_polling: a round that finds new blocks catches them up.  (A
\* round that finds none, or cannot read the chain head, only sleeps.)
LPoll ==
    /\ live_pc = "poll"
    /\ LET latest_block_number == chain_head
       IN  /\ latest_block_number > last_synced_block
           /\ CatchUpEnter(last_synced_block + 1, latest_block_number, "poll")
    /\ UNCHANGED nonyvars
    /\ UNCHANGED <<chain_head, backfill, syncstate, failures, ws_stream, last_synced_block,
                   live_n, live_pushed, notif_mark>>
    /\ UNCHANGED in_queue
    /\ UNCHANGED wait_elapsed
    /\ UNCHANGED batches_completed

YNext ==
    \/ \E b \in 1..MaxBatchSize, r \in 1..MaxRpcBatchSize, w \in 0..MaxWorkers,
          tip \in start_block..(start_block + MaxBacklog) : MainSetup(b, r, w, tip)
    \/ HistStart
    \/ HistStartFails
    \/ HistBatch
    \/ \E w \in Workers : FWPop(w)
    \/ \E w \in Workers : FWFetchBatch(w)
    \/ \E w \in Workers : FWFetchBatchFails(w)
    \/ \E w \in Workers : FWQueueBlock(w)
    \/ \E w \in Workers : FWConvertFails(w)
    \/ HistFetchReturn
    \/ HistAdvance
    \/ HistWaitBegin
    \/ HistComplete
    \/ HistWaitSleep
    \/ HistQueueTimeout
    \/ WriterPop
    \/ \E deliver \in BOOLEAN : ChainAdvance(deliver)
    \/ LSubscribe
    \/ LSubscribeFails
    \/ LStartupTip
    \/ LStartupTipFails
    \/ LCatchUpSeq
    \/ LCatchUpSeqFails
    \/ LCatchUpSpawn
    \/ \E k \in 1..MaxHead : LCatchUpTask(k)
    \/ \E k \in 1..MaxHead : LCatchUpTaskFails(k)
    \/ LCatchUpJoin
    \/ LNotify
    \/ LProcessHead
    \/ LProcessHeadFails
    \/ LPoll

(***************************************************************************)
(* The blocks table: db::blocks::save_block (indexer/src/db/blocks.rs) on  *)
(* the table created by migrations.rs.                                     *)
(***************************************************************************)
\* U256::to_string, for the values of the model.
U256ToString(n) == <<"0", "1", "2", "3", "4", "5", "6", "7", "8", "9">>[n + 1]

\* The indexer Blocks that are saved: `fork` tells apart two blocks of one
\* number (a re-org); the hash of a block is its own, so no two numbers share
\* one.
IndexerBlocks ==
    [number : 1..MaxNumber,
     fork : 1..MaxForks,
     difficulty : 0..MaxDifficulty,
     total_difficulty : {None} \cup {Some(d) : d \in 0..MaxDifficulty}]

BlockHash(b) == <<"0xhash", b.number, b.fork>>

\* The values save_block binds to $1..$17: the number, the hash (and with it
\* the other columns bound as they are), difficulty and total_difficulty as
\* decimal text, a missing total_difficulty as the empty string.
BoundValues(b) ==
    [number |-> b.number,
     hash |-> BlockHash(b),
     difficulty |-> U256ToString(b.difficulty),
     total_difficulty |-> IF b.total_difficulty = None THEN ""
                          ELSE U256ToString(Unwrap(b.total_difficulty))]

\* One row of the table.
Row(values, created_at, updated_at) ==
    [values |-> values, created_at |-> created_at, updated_at |-> updated_at]

\* INSERT without the ON CONFLICT clause, on a table without the primary key.
PlainInsert(tbl, b, t) == Append(tbl, Row(BoundValues(b), t, t))

\* INSERT ... ON CONFLICT (number) DO UPDATE SET ...: the row of that number
\* takes the bound values and updated_at = CURRENT_TIMESTAMP and keeps its
\* created_at; without such a row one is inserted, both timestamps defaulting
\* to CURRENT_TIMESTAMP.
Upsert(tbl, b, t) ==
    IF \E i \in DOMAIN tbl : tbl[i].values.number = b.number
    THEN [i \in DOMAIN tbl |->
             IF tbl[i].values.number = b.number
             THEN Row(BoundValues(b), tbl[i].created_at, t)
             ELSE tbl[i]]
    ELSE Append(tbl, Row(BoundValues(b), t, t))

DInit ==
    /\ table = <<>>
    /\ db_now = 0
    /\ saved = <<>>

\* save_block(pool, block) returns Ok.
SaveBlock(b) ==
    /\ Len(saved) < MaxSaves
    /\ table' = Upsert(table, b, db_now)
    /\ saved' = Append(saved, b)
    /\ UNCHANGED db_now
    /\ UNCHANGED nondvars

\* Time passes in the database.
DbTick ==
    /\ db_now < MaxDbTime
    /\ db_now' = db_now + 1
    /\ UNCHANGED <<table, saved>>
    /\ UNCHANGED nondvars

DNext ==
    \/ \E b \in IndexerBlocks : SaveBlock(b)
    \/ DbTick

(***************************************************************************)
(* Start-up of the indexer: main (indexer/src/main.rs) computes the block  *)
(* the backfill starts from and creates the SyncState with it.             *)
(***************************************************************************)
StartNums == 0..MaxStartNum
OptStartNums == {None} \cup {Some(n) : n \in StartNums}

\* main: `if current_chain_tip > blocks_from_tip { tip - blocks_from_tip } else { 0 }`
CalculatedStart(tip, bft) == IF tip > bft THEN tip - bft ELSE 0

\* A start block that ignores what the store holds when BLOCKS_FROM_TIP is set.
StartBlockIgnoresStore(tip, bft, cfg, latest) ==
    IF bft # None THEN Max({CalculatedStart(tip, Unwrap(bft)), cfg})
    ELSE IF latest # None THEN Unwrap(latest) ELSE cfg

\* main: the `match db_arc.get_latest_block_number()` that yields
\* latest_synced_block.
StartBlock(tip, bft, cfg, latest) ==
    IF latest # None
    THEN IF bft # None
         THEN LET calculated_start == CalculatedStart(tip, Unwrap(bft))
                  start == Max({Max({calculated_start, cfg}), Unwrap(latest)})
              IN  IF start # Unwrap(latest) THEN start ELSE Unwrap(latest)
         ELSE Unwrap(latest)
    ELSE IF bft # None
         THEN Max({CalculatedStart(tip, Unwrap(bft)), cfg})
         ELSE cfg

MInit ==
    /\ current_chain_tip = 0
    /\ blocks_from_tip = None
    /\ config_start_block = 0
    /\ db_latest = None

\* main up to SyncState::new(latest_synced_block): the configuration is
\* loaded, the chain tip and the latest stored block number are read.
MainStart(tip, bft, cfg, latest) ==
    /\ hist_pc = "new"
    /\ current_chain_tip' = tip
    /\ blocks_from_tip' = bft
    /\ config_start_block' = cfg
    /\ db_latest' = latest
    /\ chain_head' = tip
    /\ latest_synced_block' = StartBlock(tip, bft, cfg, latest)
    /\ historic_sync_complete' = FALSE
    /\ hist_pc' = "start"
    /\ UNCHANGED nonmvars
    /\ UNCHANGED <<config, hist_start, hist_end, hist_current, hist_batch_end, fwvars,
                   pushed, logged, failures, livevars, in_queue, wait_elapsed>>
    /\ UNCHANGED batches_completed

\* The chain produces a block between main's read of the tip and
\* HistoricSync::start's.
MainChainGrows ==
    /\ hist_pc = "start" /\ chain_head = current_chain_tip
    /\ chain_head' = chain_head + 1
    /\ UNCHANGED nonmvars
    /\ UNCHANGED mvars
    /\ UNCHANGED <<config, syncstate, histvars, fwvars, pushed, logged, failures, livevars,
                   in_queue, wait_elapsed>>
    /\ UNCHANGED batches_completed

MNext ==
    \/ \E tip \in StartNums, bft \in OptStartNums, cfg \in StartNums, latest \in OptStartNums :
          MainStart(tip, bft, cfg, latest)
    \/ MainChainGrows
    \/ HistStart

(***************************************************************************)
(* Shred pipeline: the persistence worker (block_manager.rs, db/mod.rs)    *)
(* and the shutdown of process_websocket (processor.rs).  The model starts *)
(* when the message loop of process_websocket ends: the map holds blocks,  *)
(* and for every block flagged as persisted a PersistBlock message was     *)
(* sent earlier, which the worker may not have received yet.               *)
(***************************************************************************)
\* PersistenceMessage::Shutdown
ShutdownMsg == [kind |-> "Shutdown"]

\* The shred of block n with index idx, received at time 0.
ShredOf(n, idx) == MkShred(n, idx, NumTransactions(idx), NumStateChanges(idx), Some(0))

\* The tracked block n after the shreds 0..k-1 arrived in index order.
RECURSIVE BlockOfShreds(_, _)
BlockOfShreds(n, k) ==
    IF k = 0 THEN BlockNew(n, 0)
    ELSE UpdateWithShred(BlockOfShreds(n, k - 1), k - 1, ShredOf(n, k - 1), 0, 0)

\* The tracked blocks a map can hold for number n: add_shred inserts a block
\* together with its first shred, and persist_block only sets the flag.
TrackedBlocks(n) ==
    {[BlockOfShreds(n, k) EXCEPT !.is_persisted = f] : k \in 1..MaxFlushShreds, f \in BOOLEAN}

\* The maps of active blocks when the message loop ends.
FlushMaps ==
    UNION {{m \in [D -> UNION {TrackedBlocks(n) : n \in D}] : \A n \in D : m[n] \in TrackedBlocks(n)} :
              D \in SUBSET BlockNums}

\* The messages sent for the flagged blocks of map m, oldest first.
RECURSIVE EarlierMessages(_, _)
EarlierMessages(m, D) ==
    IF D = {} THEN <<>>
    ELSE LET n == CHOOSE x \in D : \A y \in D : x <= y
         IN  (IF m[n].is_persisted
              THEN <<PersistBlockMsg([m[n] EXCEPT !.is_persisted = FALSE], "ingest", 0)>>
              ELSE <<>>) \o EarlierMessages(m, D \ {n})

\* get_blocks_to_flush: the filter.
BlocksToFlush(m) ==
    {m[n] : n \in {x \in DOMAIN m : ~m[x].is_persisted /\ m[x].buffered_shreds # <<>>}}

\* Block::mark_persisted
MarkPersisted(b) == [b EXCEPT !.is_persisted = TRUE, !.buffered_shreds = <<>>]

\* persist_block_with_shreds: the position of the buffered shred with the
\* lowest (highest) shred_idx; the first one among equals.
MinIdxPos(buf) ==
    CHOOSE i \in DOMAIN buf :
        /\ \A j \in DOMAIN buf : buf[i].shred_idx <= buf[j].shred_idx
        /\ \A j \in 1..(i - 1) : buf[j].shred_idx # buf[i].shred_idx
MaxIdxPos(buf) ==
    CHOOSE i \in DOMAIN buf :
        /\ \A j \in DOMAIN buf : buf[i].shred_idx >= buf[j].shred_idx
        /\ \A j \in 1..(i - 1) : buf[j].shred_idx # buf[i].shred_idx

PInit ==
    /\ ctl_pc = "loop"
    /\ flush_list = <<>>
    /\ pw_pc = "recv"
    /\ pw_read = 0
    /\ pw_block = None
    /\ db_shreds = <<>>
    /\ db_blocks = <<>>
    /\ partial = {}
    /\ db_failures = 0
    /\ exit_code = None

\* The process has not ended.
Alive == exit_code = None

\* process_websocket: the message loop ends (the connection closed, or
\* Ctrl+C cleared `running`) with the map m; the background tasks are aborted.
CtlLoopEnds(m) ==
    /\ Alive /\ ctl_pc = "loop"
    /\ active_blocks' = m
    /\ persist_chan' = EarlierMessages(m, DOMAIN m)
    /\ ctl_pc' = "get_blocks"
    /\ UNCHANGED nonpvars
    /\ UNCHANGED <<flush_list, pw_pc, pw_read, pw_block, db_shreds, db_blocks, partial,
                   db_failures, exit_code>>

\* process_websocket: block_manager.get_blocks_to_flush(), in the order the
\* HashMap yields them.
CtlGetBlocksToFlush ==
    /\ Alive /\ ctl_pc = "get_blocks"
    /\ flush_list' \in IterOrders(BlocksToFlush(active_blocks))
    /\ ctl_pc' = "flush"
    /\ UNCHANGED nonpvars
    /\ UNCHANGED <<active_blocks, persist_chan, pw_pc, pw_read, pw_block, db_shreds,
                   db_blocks, partial, db_failures, exit_code>>

\* process_websocket: persist_block of the next block to flush.
CtlFlushPersist ==
    /\ Alive /\ ctl_pc = "flush" /\ Len(flush_list) > 0
    /\ active_blocks' = PersistBlockMark(active_blocks, flush_list[1].number)
    /\ PersistBlockSend(flush_list[1], "flush", 0)
    /\ flush_list' = Tail(flush_list)
    /\ UNCHANGED nonpvars
    /\ UNCHANGED <<ctl_pc, pw_pc, pw_read, pw_block, db_shreds, db_blocks, partial,
                   db_failures, exit_code>>

\* process_websocket: every block is queued; after the sleep of at most 30
\* seconds block_manager.shutdown() sends Shutdown and process_websocket
\* returns Ok.
CtlShutdown ==
    /\ Alive /\ ctl_pc = "flush" /\ Len(flush_list) = 0
    /\ persist_chan' = Append(persist_chan, ShutdownMsg)
    /\ ctl_pc' = "returned"
    /\ UNCHANGED nonpvars
    /\ UNCHANGED <<active_blocks, flush_list, pw_pc, pw_read, pw_block, db_shreds, db_blocks,
                   partial, db_failures, exit_code>>

\* main: `running` is false, the loop ends and main returns Ok: the process
\* ends with code 0, whatever the persistence worker is doing.
MainReturns ==
    /\ Alive /\ ctl_pc = "returned"
    /\ exit_code' = Some(0)
    /\ UNCHANGED nonpvars
    /\ UNCHANGED <<active_blocks, persist_chan, ctl_pc, flush_list, pw_pc, pw_read, pw_block,
                   db_shreds, db_blocks, partial, db_failures>>

\* persistence_worker: receiver.recv() yields the next message.
PWRecv ==
    /\ Alive /\ pw_pc = "recv" /\ pw_read < Len(persist_chan)
    /\ pw_read' = pw_read + 1
    /\ LET message == persist_chan[pw_read + 1]
       IN  IF message.kind = "Shutdown"
           THEN pw_pc' = "stopped" /\ pw_block' = None
           ELSE /\ pw_block' = Some(message.block)
                /\ pw_pc' = IF BufferedCount(message.block) = 0 THEN "header" ELSE "shreds"
    /\ UNCHANGED nonpvars
    /\ UNCHANGED <<active_blocks, persist_chan, ctl_pc, flush_list, db_shreds, db_blocks,
                   partial, db_failures, exit_code>>

\* persist_block_with_shreds: save_shreds_batch commits the buffered shreds;
\* the ids the database returns replace first_shred_id and last_shred_id.
PWSaveShredsOk ==
    /\ Alive /\ pw_pc = "shreds"
    /\ LET block == Unwrap(pw_block)
           buf == block.buffered_shreds
           shred_ids == [i \in DOMAIN buf |-> Len(db_shreds) + i]
       IN  /\ db_shreds' = db_shreds \o buf
           /\ pw_block' = Some([block EXCEPT
                                  !.first_shred_id = Some(shred_ids[MinIdxPos(buf)]),
                                  !.last_shred_id = Some(shred_ids[MaxIdxPos(buf)])])
    /\ pw_pc' = "header"
    /\ UNCHANGED nonpvars
    /\ UNCHANGED <<active_blocks, persist_chan, ctl_pc, flush_list, pw_read, db_blocks,
                   partial, db_failures, exit_code>>

\* persist_block_with_shreds: save_shreds_batch fails; std::process::exit(1).
PWSaveShredsErr ==
    /\ Alive /\ pw_pc = "shreds" /\ db_failures < MaxDbFailures
    /\ db_failures' = db_failures + 1
    /\ exit_code' = Some(1)
    /\ UNCHANGED nonpvars
    /\ UNCHANGED <<active_blocks, persist_chan, ctl_pc, flush_list, pw_pc, pw_read, pw_block,
                   db_shreds, db_blocks, partial>>

\* persist_block_with_shreds: save_block writes the header row and the
\* worker's copy is marked persisted; the worker takes the next message.
PWSaveBlockOk ==
    /\ Alive /\ pw_pc = "header"
    /\ db_blocks' = MapInsert(db_blocks, Unwrap(pw_block).number, Unwrap(pw_block))
    /\ pw_block' = Some(MarkPersisted(Unwrap(pw_block)))
    /\ pw_pc' = "recv"
    /\ UNCHANGED nonpvars
    /\ UNCHANGED <<active_blocks, persist_chan, ctl_pc, flush_list, pw_read, db_shreds,
                   partial, db_failures, exit_code>>

\* persist_block_with_shreds: save_block fails and Err(e) is returned; the
\* worker logs "failed to persist block" and takes the next message.
PWSaveBlockErr ==
    /\ Alive /\ pw_pc = "header" /\ db_failures < MaxDbFailures
    /\ db_failures' = db_failures + 1
    /\ partial' = IF BufferedCount(Unwrap(pw_block)) > 0
                  THEN partial \cup {Unwrap(pw_block).number} ELSE partial
    /\ pw_pc' = "recv"
    /\ UNCHANGED nonpvars
    /\ UNCHANGED <<active_blocks, persist_chan, ctl_pc, flush_list, pw_read, pw_block,
                   db_shreds, db_blocks, exit_code>>

\* process_websocket: the message loop ends between two messages and
\* status_task.abort() and blocks_task.abort() are called.  The block checker
\* is dropped at the await it is at, with its local list of blocks; the model
\* leaves its variables as they were and never moves it again.
CtlAbortTasks ==
    /\ Alive /\ ctl_pc = "loop" /\ hpc = "idle"
    /\ ctl_pc' = "get_blocks"
    /\ UNCHANGED nonpvars
    /\ UNCHANGED <<active_blocks, persist_chan, flush_list, pw_pc, pw_read, pw_block,
                   db_shreds, db_blocks, partial, db_failures, exit_code>>

\* The message handler, the block checker and the clock while the loop runs.
PipelineStep == ctl_pc = "loop" /\ SNext

\* The shred pipeline up to its teardown: the loop, the abort of the
\* background tasks, the flush and the shutdown message.
TeardownNext ==
    \/ PipelineStep
    \/ CtlAbortTasks
    \/ CtlGetBlocksToFlush
    \/ CtlFlushPersist
    \/ CtlShutdown

PNext ==
    \/ \E m \in FlushMaps : CtlLoopEnds(m)
    \/ CtlGetBlocksToFlush
    \/ CtlFlushPersist
    \/ CtlShutdown
    \/ MainReturns
    \/ PWRecv
    \/ PWSaveShredsOk
    \/ PWSaveShredsErr
    \/ PWSaveBlockOk
    \/ PWSaveBlockErr

(***************************************************************************)
(* Pushing a block with retries: the loop of BlockFetcher::fetch_batch     *)
(* (fetcher.rs:279-319) and LiveSync::push_block_to_queue                  *)
(* (live.rs:477-516)                                                       *)
(***************************************************************************)
\* The tasks that run the loop.
Callers == {"fetcher", "live"}
\* The factor of the sleep between two try_push calls.
RetryWaitMs(c) == IF c = "fetcher" THEN FETCHER_RETRY_WAIT_MS ELSE LIVE_RETRY_WAIT_MS

RInit ==
    /\ r_pc = [c \in Callers |-> "idle"]
    /\ retry_count = [c \in Callers |-> 0]
    /\ r_blk = [c \in Callers |-> NoBlock]
    /\ r_tries = [c \in Callers |-> 0]
    /\ r_waits = [c \in Callers |-> <<>>]
    /\ r_how = [i \in BlockIds |-> "none"]

\* What the loop leaves alone of the queue model.
RQueueRest == <<status, wpc, wheld, ppc, pblk, presult, saveFails, store, pops, dropped,
                try_log, pushed_by, pops_paused>>

\* let mut retry_count = 0; the caller enters the loop with a converted block.
RBegin(c) ==
    /\ r_pc[c] = "idle" /\ nextId <= MaxBlocks
    /\ r_blk' = [r_blk EXCEPT ![c] = NewBlock(nextId)]
    /\ nextId' = nextId + 1
    /\ retry_count' = [retry_count EXCEPT ![c] = 0]
    /\ r_tries' = [r_tries EXCEPT ![c] = 0]
    /\ r_waits' = [r_waits EXCEPT ![c] = <<>>]
    /\ r_pc' = [r_pc EXCEPT ![c] = "try"]
    /\ UNCHANGED <<q_items, permits, pushes, r_how>>
    /\ UNCHANGED RQueueRest
    /\ UNCHANGED nonrvars

\* try_push(model_block.clone()): try_acquire succeeded, queue.push comes next.
RTryPushAcquire(c) ==
    /\ r_pc[c] = "try"
    /\ AcquirePermit
    /\ r_tries' = [r_tries EXCEPT ![c] = @ + 1]
    /\ r_pc' = [r_pc EXCEPT ![c] = "try_enq"]
    /\ UNCHANGED <<q_items, pushes, nextId, retry_count, r_blk, r_waits, r_how>>
    /\ UNCHANGED RQueueRest
    /\ UNCHANGED nonrvars

\* try_push returns true: the clone is in the queue and the loop breaks.
RTryPushEnqueue(c) ==
    /\ r_pc[c] = "try_enq"
    /\ Enqueue(r_blk[c])
    /\ r_how' = [r_how EXCEPT ![r_blk[c].id] = "try_push"]
    /\ r_blk' = [r_blk EXCEPT ![c] = NoBlock]
    /\ r_pc' = [r_pc EXCEPT ![c] = "idle"]
    /\ UNCHANGED <<permits, nextId, retry_count, r_tries, r_waits>>
    /\ UNCHANGED RQueueRest
    /\ UNCHANGED nonrvars

\* The loop gives the block up after max_push_retries failed try_push calls.
RTryPushFullGivesUp(c) ==
    /\ r_pc[c] = "try"
    /\ permits = 0
    /\ r_tries' = [r_tries EXCEPT ![c] = @ + 1]
    /\ retry_count' = [retry_count EXCEPT ![c] = @ + 1]
    /\ IF retry_count[c] + 1 >= max_push_retries
       THEN /\ r_pc' = [r_pc EXCEPT ![c] = "idle"]
            /\ r_how' = [r_how EXCEPT ![r_blk[c].id] = "dropped"]
            /\ r_blk' = [r_blk EXCEPT ![c] = NoBlock]
            /\ UNCHANGED r_waits
       ELSE /\ r_pc' = [r_pc EXCEPT ![c] = "sleep"]
            /\ r_waits' = [r_waits EXCEPT ![c] = Append(@, RetryWaitMs(c) * (retry_count[c] + 1))]
            /\ UNCHANGED <<r_blk, r_how>>
    /\ UNCHANGED <<q_items, permits, pushes, nextId>>
    /\ UNCHANGED RQueueRest
    /\ UNCHANGED nonrvars

\* try_push returns false: retry_count += 1; with retry_count >=
\* max_push_retries the blocking push comes next, without a sleep; otherwise
\* the caller sleeps RetryWaitMs * retry_count ms.
RTryPushFull(c) ==
    /\ r_pc[c] = "try"
    /\ permits = 0
    /\ r_tries' = [r_tries EXCEPT ![c] = @ + 1]
    /\ retry_count' = [retry_count EXCEPT ![c] = @ + 1]
    /\ IF retry_count[c] + 1 >= max_push_retries
       THEN /\ r_pc' = [r_pc EXCEPT ![c] = "push"]
            /\ UNCHANGED r_waits
       ELSE /\ r_pc' = [r_pc EXCEPT ![c] = "sleep"]
            /\ r_waits' = [r_waits EXCEPT ![c] = Append(@, RetryWaitMs(c) * (retry_count[c] + 1))]
    /\ UNCHANGED <<q_items, permits, pushes, nextId, r_blk, r_how>>
    /\ UNCHANGED RQueueRest
    /\ UNCHANGED nonrvars

\* The sleep ends: the next round of the loop calls try_push again.
RWake(c) ==
    /\ r_pc[c] = "sleep"
    /\ r_pc' = [r_pc EXCEPT ![c] = "try"]
    /\ UNCHANGED <<q_items, permits, pushes, nextId, retry_count, r_blk, r_tries, r_waits, r_how>>
    /\ UNCHANGED RQueueRest
    /\ UNCHANGED nonrvars

\* block_queue.push(model_block).await: semaphore.acquire() returns once a
\* permit is available.  The semaphore is never closed, so acquire has no Err.
RPushAcquire(c) ==
    /\ r_pc[c] = "push"
    /\ AcquirePermit
    /\ r_pc' = [r_pc EXCEPT ![c] = "push_enq"]
    /\ UNCHANGED <<q_items, pushes, nextId, retry_count, r_blk, r_tries, r_waits, r_how>>
    /\ UNCHANGED RQueueRest
    /\ UNCHANGED nonrvars

\* push: queue.push(block); Ok(()), and the loop breaks.
RPushEnqueue(c) ==
    /\ r_pc[c] = "push_enq"
    /\ Enqueue(r_blk[c])
    /\ r_how' = [r_how EXCEPT ![r_blk[c].id] = "push"]
    /\ r_blk' = [r_blk EXCEPT ![c] = NoBlock]
    /\ r_pc' = [r_pc EXCEPT ![c] = "idle"]
    /\ UNCHANGED <<permits, nextId, retry_count, r_tries, r_waits>>
    /\ UNCHANGED RQueueRest
    /\ UNCHANGED nonrvars

\* The callers push while the workers of the BlockProcessor take blocks out.
RNext ==
    \/ \E c \in Callers : RBegin(c)
    \/ \E c \in Callers : RTryPushAcquire(c)
    \/ \E c \in Callers : RTryPushEnqueue(c)
    \/ \E c \in Callers : RTryPushFull(c)
    \/ \E c \in Callers : RWake(c)
    \/ \E c \in Callers : RPushAcquire(c)
    \/ \E c \in Callers : RPushEnqueue(c)
    \/ ProcStart
    \/ \E w \in Writers : WCheckStatus(w)
    \/ \E w \in Writers : WTryPop(w)
    \/ \E w \in Writers : WRelease(w)
    \/ \E w \in Writers : WSaveOk(w)

(***************************************************************************)
(* throttle_if_queue_full (fetcher.rs:327-351, historic.rs:469-493)        *)
(***************************************************************************)
\* The queues the throttle is asked about: capacity() and len().
Capacities == 1..MaxCapacity
\* Who calls it: fetch_blocks_range at its end (fetcher.rs:231),
\* process_blocks_concurrent after each outer batch (historic.rs:447).
ThrottleCallers == {"fetcher", "historic"}

\* fill_percentage > pct, with fill_percentage = (queue_size as f64 /
\* capacity as f64) * 100.0.  The f64 quotient and product are correctly
\* rounded and monotone, and for queue_size * 100 = pct * capacity with pct
\* in {90, 75, 50} the product is exactly pct, so the f64 comparison decides
\* as the integers do.
FillAbove(queue_size, capacity, pct) == queue_size * 100 > pct * capacity

\* The if / else if chain of throttle_if_queue_full: the milliseconds it
\* sleeps, 0 when it does not sleep.
ThrottleSleepMs(queue_size, capacity) ==
    IF FillAbove(queue_size, capacity, 90) THEN 5000
    ELSE IF FillAbove(queue_size, capacity, 75) THEN 1000
    ELSE IF FillAbove(queue_size, capacity, 50) THEN 500
    ELSE 0

TInit ==
    /\ t_pc = "idle"
    /\ t_caller = "none"
    /\ t_capacity = 1
    /\ t_queue_size = 0
    /\ t_sleep = None

\* throttle_if_queue_full reads capacity() and len().
ThrottleCall(c, capacity, queue_size) ==
    /\ t_pc = "idle"
    /\ t_caller' = c
    /\ t_capacity' = capacity
    /\ t_queue_size' = queue_size
    /\ t_sleep' = None
    /\ t_pc' = "read"
    /\ UNCHANGED nontvars

\* The chain of comparisons and the sleep; the function returns.
ThrottleSleep ==
    /\ t_pc = "read"
    /\ t_sleep' = Some(ThrottleSleepMs(t_queue_size, t_capacity))
    /\ t_pc' = "idle"
    /\ UNCHANGED <<t_caller, t_capacity, t_queue_size>>
    /\ UNCHANGED nontvars

TNext ==
    \/ \E c \in ThrottleCallers, capacity \in Capacities :
           \E queue_size \in 0..capacity : ThrottleCall(c, capacity, queue_size)
    \/ ThrottleSleep

(***************************************************************************)
(* with_retry and exponential_backoff (indexer/src/utils/retry.rs)         *)
(***************************************************************************)
\* retry_delay and max_retries as the callers pass them (Config.retry_delay,
\* Config.max_retries: any u64 and u32 the environment gives).
RetryDelays == {0, 1, DefaultRetryDelay}
RetryCounts == 0..MaxRetriesInput
\* rand::random::<f64>() * 0.4 - 0.2 lies in [-0.2, 0.2): the jitter in
\* percent of max_delay, three values of it.
JitterPercents == {-20, 0, 19}

\* 2^e for the exponents whose power the model computes.
RECURSIVE Pow2(_)
Pow2(e) == IF e = 0 THEN 1 ELSE 2 * Pow2(e - 1)

\* 2_u64.pow(e) or base_delay * 2^e does not fit in a u64: e >= 64, or
\* base_delay >= 2^(64 - e).  A base_delay of the model is below 2^31.
BackoffOverflows(base_delay, e) ==
    IF e >= U64_BITS THEN TRUE
    ELSE e >= U64_BITS - 30 /\ base_delay >= Pow2(U64_BITS - e)

\* std::cmp::min(base_delay * 2_u64.pow(e), 60_000) in u64 arithmetic that
\* wraps: 2^e is 0 for e >= 64, and the product keeps the bits of base_delay
\* below 2^(64 - e), shifted by e; a product that is not 0 with e >= 16 is
\* above 60_000.
WrappedMaxDelay(base_delay, e) ==
    IF e >= U64_BITS THEN 0
    ELSE LET kept == IF e >= U64_BITS - 30 THEN base_delay % Pow2(U64_BITS - e)
                     ELSE base_delay
         IN  IF kept = 0 THEN 0
             ELSE IF e >= 16 THEN MAX_BACKOFF_MS
             ELSE IF kept * Pow2(e) < MAX_BACKOFF_MS THEN kept * Pow2(e)
             ELSE MAX_BACKOFF_MS

\* (max_delay as f64 + jitter) as u64
WithJitter(delay, percent) == (delay * (100 + percent)) \div 100

BInit ==
    /\ b_pc = "idle"
    /\ b_retry_delay = 0
    /\ b_max_retries = 0
    /\ attempt = 0
    /\ invocations = 0
    /\ b_result = "none"
    /\ b_err_of = 0
    /\ max_delay = None
    /\ b_slept = None

\* with_retry(operation, retry_delay, max_retries, name): let mut attempt = 0.
RetryCall(retry_delay, max_retries) ==
    /\ b_pc = "idle"
    /\ b_retry_delay' = retry_delay
    /\ b_max_retries' = max_retries
    /\ attempt' = 0
    /\ b_pc' = "invoke"
    /\ UNCHANGED <<invocations, b_result, b_err_of, max_delay, b_slept>>
    /\ UNCHANGED nonbvars

\* attempt += 1; operation().await is Ok(result): return Ok(result).
RetryInvokeOk ==
    /\ b_pc = "invoke"
    /\ attempt' = attempt + 1
    /\ invocations' = invocations + 1
    /\ b_result' = "Ok"
    /\ b_pc' = "returned"
    /\ UNCHANGED <<b_retry_delay, b_max_retries, b_err_of, max_delay, b_slept>>
    /\ UNCHANGED nonbvars

\* attempt += 1; operation().await is Err(err): with attempt > max_retries
\* return Err(err), otherwise the backoff comes next.
RetryInvokeErr ==
    /\ b_pc = "invoke"
    /\ attempt' = attempt + 1
    /\ invocations' = invocations + 1
    /\ IF attempt + 1 > b_max_retries
       THEN /\ b_result' = "Err"
            /\ b_err_of' = invocations + 1
            /\ b_pc' = "returned"
       ELSE /\ b_pc' = "backoff"
            /\ UNCHANGED <<b_result, b_err_of>>
    /\ UNCHANGED <<b_retry_delay, b_max_retries, max_delay, b_slept>>
    /\ UNCHANGED nonbvars

\* exponential_backoff(retry_delay, attempt) and the sleep, in a build whose
\* u64 arithmetic wraps on overflow.
RetryBackoff ==
    /\ b_pc = "backoff"
    /\ max_delay' = Some(WrappedMaxDelay(b_retry_delay, attempt - 1))
    /\ \E percent \in JitterPercents :
           b_slept' = Some(WithJitter(WrappedMaxDelay(b_retry_delay, attempt - 1), percent))
    /\ b_pc' = "invoke"
    /\ UNCHANGED <<b_retry_delay, b_max_retries, attempt, invocations, b_result, b_err_of>>
    /\ UNCHANGED nonbvars

\* exponential_backoff in a build with overflow checks: pow or the
\* multiplication panics and with_retry does not return.
RetryBackoffPanics ==
    /\ b_pc = "backoff"
    /\ BackoffOverflows(b_retry_delay, attempt - 1)
    /\ b_result' = "panic"
    /\ b_pc' = "returned"
    /\ UNCHANGED <<b_retry_delay, b_max_retries, attempt, invocations, b_err_of, max_delay, b_slept>>
    /\ UNCHANGED nonbvars

BNext ==
    \/ \E retry_delay \in RetryDelays, max_retries \in RetryCounts :
           RetryCall(retry_delay, max_retries)
    \/ RetryInvokeOk
    \/ RetryInvokeErr
    \/ RetryBackoff
    \/ RetryBackoffPanics

(***************************************************************************)
(* The tasks of the shred pipeline and their locks.  A task is followed    *)
(* from one await to the next: taking a tokio Mutex, the synchronous code  *)
(* up to the drop of the guard, a send on the persistence channel, a sleep *)
(* or a read of the websocket.  "main" is process_websocket (the ingest    *)
(* loop, then the shutdown flush), "checker" the block checker, "reporter" *)
(* the status reporter.                                                    *)
(***************************************************************************)
Tasks == {"main", "checker", "reporter"}

Locks == {"active_blocks", "duplicate_count", "blocks_dropped_count", "shred_count",
          "last_shred_time"}

\* One operation of a task: what it does, the lock or the message it does it
\* with, where the task is afterwards, and where after a failed send.
Instr(kind, a, nxt, e) == [op |-> kind, arg |-> a, next |-> nxt, err |-> e]

\* persist_block, called from `site`, returning to one of `ret`.
PersistBlockCode(site, step, ret) ==
    CASE step = "mark_lock"   -> Instr("lock", "active_blocks", {<<site, "mark_held">>}, {})
      [] step = "mark_held"   -> Instr("unlock", "active_blocks", {<<site, "send">>}, {})
      [] step = "send"        -> Instr("send", "PersistBlock", ret, {<<site, "unmark_lock">>})
      [] step = "unmark_lock" -> Instr("lock", "active_blocks", {<<site, "unmark_held">>}, {})
      [] step = "unmark_held" -> Instr("unlock", "active_blocks", ret, {})

\* An add_shred whose duplicate path keeps the guard of the map while it
\* takes the counters.
AddShredCodeKeepsGuard(step, ret_blocks, ret_empty) ==
    CASE step = "lock"         -> Instr("lock", "active_blocks",
                                        {<<"add_shred", "held">>, <<"add_shred", "dup_lock">>}, {})
      [] step = "held"         -> Instr("unlock", "active_blocks", ret_blocks \cup ret_empty, {})
      [] step = "dup_lock"     -> Instr("lock", "duplicate_count", {<<"add_shred", "dup_held">>}, {})
      [] step = "dup_held"     -> Instr("unlock", "duplicate_count",
                                        {<<"add_shred", "dropped_lock">>}, {})
      [] step = "dropped_lock" -> Instr("lock", "blocks_dropped_count",
                                        {<<"add_shred", "dropped_held">>}, {})
      [] step = "dropped_held" -> Instr("unlock", "blocks_dropped_count",
                                        {<<"add_shred", "reset_held">>}, {})
      [] step = "reset_held"   -> Instr("unlock", "active_blocks", ret_empty, {})

\* add_shred: the guard of the map is taken; a duplicate drops it, takes and
\* drops each of the two counters, takes the map again and returns no block;
\* a regular shred returns with the blocks to persist, or none.
AddShredCode(step, ret_blocks, ret_empty) ==
    CASE step = "lock"         -> Instr("lock", "active_blocks", {<<"add_shred", "held">>}, {})
      [] step = "held"         -> Instr("unlock", "active_blocks",
                                        {<<"add_shred", "dup_lock">>} \cup ret_blocks
                                            \cup ret_empty, {})
      [] step = "dup_lock"     -> Instr("lock", "duplicate_count", {<<"add_shred", "dup_held">>}, {})
      [] step = "dup_held"     -> Instr("unlock", "duplicate_count",
                                        {<<"add_shred", "dropped_lock">>}, {})
      [] step = "dropped_lock" -> Instr("lock", "blocks_dropped_count",
                                        {<<"add_shred", "dropped_held">>}, {})
      [] step = "dropped_held" -> Instr("unlock", "blocks_dropped_count",
                                        {<<"add_shred", "reset_lock">>}, {})
      [] step = "reset_lock"   -> Instr("lock", "active_blocks", {<<"add_shred", "reset_held">>}, {})
      [] step = "reset_held"   -> Instr("unlock", "active_blocks", ret_empty, {})

\* check_buffer_limit: the map is locked to test the buffered count and, when
\* the limit is reached, locked again to clone the block.
CheckBufferLimitCode(step, ret_some, ret_none) ==
    CASE step = "lock"       -> Instr("lock", "active_blocks", {<<"check_buffer_limit", "held">>}, {})
      [] step = "held"       -> Instr("unlock", "active_blocks",
                                      {<<"check_buffer_limit", "clone_lock">>} \cup ret_none, {})
      [] step = "clone_lock" -> Instr("lock", "active_blocks",
                                      {<<"check_buffer_limit", "clone_held">>}, {})
      [] step = "clone_held" -> Instr("unlock", "active_blocks", ret_some \cup ret_none, {})

\* process_message, for a shred: the last-arrival timestamp, add_shred, the
\* completed blocks, the buffer limit, the shred counter.
ProcessMessageCode(step) ==
    CASE step = "ts_lock"    -> Instr("lock", "last_shred_time", {<<"process_message", "ts_held">>}, {})
      [] step = "ts_held"    -> Instr("unlock", "last_shred_time", {<<"add_shred", "lock">>}, {})
      [] step = "count_lock" -> Instr("lock", "shred_count", {<<"process_message", "count_held">>}, {})
      [] step = "count_held" -> Instr("unlock", "shred_count", {<<"process_websocket", "recv">>}, {})

\* process_websocket: the select! of the ingest loop, the keep-alive ping, the
\* abort of the two background tasks, the flush and the shutdown message.
ProcessWebsocketCode(step) ==
    CASE step = "recv"            -> Instr("io", "", {<<"process_message", "ts_lock">>,
                                                      <<"process_websocket", "ping">>,
                                                      <<"process_websocket", "abort">>}, {})
      [] step = "ping"            -> Instr("io", "", {<<"process_websocket", "ping_count_lock">>,
                                                      <<"process_websocket", "abort">>}, {})
      [] step = "ping_count_lock" -> Instr("lock", "shred_count",
                                           {<<"process_websocket", "ping_count_held">>}, {})
      [] step = "ping_count_held" -> Instr("unlock", "shred_count",
                                           {<<"process_websocket", "recv">>}, {})
      [] step = "abort"           -> Instr("abort", "", {<<"process_websocket", "flush_lock">>}, {})
      [] step = "flush_lock"      -> Instr("lock", "active_blocks",
                                           {<<"process_websocket", "flush_held">>}, {})
      [] step = "flush_held"      -> Instr("unlock", "active_blocks",
                                           {<<"flush", "mark_lock">>,
                                            <<"process_websocket", "shutdown">>}, {})
      [] step = "flush_sleep"     -> Instr("io", "", {<<"process_websocket", "shutdown">>}, {})
      [] step = "shutdown"        -> Instr("send", "Shutdown", {<<"process_websocket", "done">>},
                                           {<<"process_websocket", "done">>})
      [] step = "done"            -> Instr("halt", "", {}, {})

\* spawn_block_checker: sleep, find_stale_blocks and a persist_block per stale
\* block, find_blocks_by_buffer_criteria and a persist_block per block.
BlockCheckerCode(step) ==
    CASE step = "sleep"         -> Instr("io", "", {<<"block_checker", "stale_lock">>}, {})
      [] step = "stale_lock"    -> Instr("lock", "active_blocks", {<<"block_checker", "stale_held">>}, {})
      [] step = "stale_held"    -> Instr("unlock", "active_blocks",
                                         {<<"stale", "mark_lock">>,
                                          <<"block_checker", "criteria_lock">>}, {})
      [] step = "criteria_lock" -> Instr("lock", "active_blocks",
                                         {<<"block_checker", "criteria_held">>}, {})
      [] step = "criteria_held" -> Instr("unlock", "active_blocks",
                                         {<<"criteria", "mark_lock">>,
                                          <<"block_checker", "sleep">>}, {})

\* spawn_status_reporter: sleep, then each counter and the map in turn, every
\* guard dropped before the next lock is asked for.
StatusReporterCode(step) ==
    CASE step = "sleep"        -> Instr("io", "", {<<"status_reporter", "count_lock">>}, {})
      [] step = "count_lock"   -> Instr("lock", "shred_count", {<<"status_reporter", "count_held">>}, {})
      [] step = "count_held"   -> Instr("unlock", "shred_count", {<<"status_reporter", "dup_lock">>}, {})
      [] step = "dup_lock"     -> Instr("lock", "duplicate_count", {<<"status_reporter", "dup_held">>}, {})
      [] step = "dup_held"     -> Instr("unlock", "duplicate_count",
                                        {<<"status_reporter", "dropped_lock">>}, {})
      [] step = "dropped_lock" -> Instr("lock", "blocks_dropped_count",
                                        {<<"status_reporter", "dropped_held">>}, {})
      [] step = "dropped_held" -> Instr("unlock", "blocks_dropped_count",
                                        {<<"status_reporter", "blocks_lock">>}, {})
      [] step = "blocks_lock"  -> Instr("lock", "active_blocks", {<<"status_reporter", "blocks_held">>}, {})
      [] step = "blocks_held"  -> Instr("unlock", "active_blocks", {<<"status_reporter", "sleep">>}, {})

\* The operation at position pc.
Code(pc) ==
    LET site == pc[1]
        step == pc[2]
        ToBufferLimit == {<<"check_buffer_limit", "lock">>}
        ToCount == {<<"process_message", "count_lock">>}
    IN  CASE site = "process_websocket" -> ProcessWebsocketCode(step)
          [] site = "process_message" -> ProcessMessageCode(step)
          [] site = "add_shred" -> AddShredCode(step, {<<"complete", "mark_lock">>}, ToBufferLimit)
          [] site = "complete" ->
                 PersistBlockCode(site, step, {<<"complete", "mark_lock">>} \cup ToBufferLimit)
          [] site = "check_buffer_limit" ->
                 CheckBufferLimitCode(step, {<<"limit", "mark_lock">>}, ToCount)
          [] site = "limit" -> PersistBlockCode(site, step, ToCount)
          [] site = "flush" ->
                 PersistBlockCode(site, step, {<<"flush", "mark_lock">>,
                                               <<"process_websocket", "flush_sleep">>})
          [] site = "block_checker" -> BlockCheckerCode(step)
          [] site = "stale" ->
                 PersistBlockCode(site, step, {<<"stale", "mark_lock">>,
                                               <<"block_checker", "criteria_lock">>})
          [] site = "criteria" ->
                 PersistBlockCode(site, step, {<<"criteria", "mark_lock">>,
                                               <<"block_checker", "sleep">>})
          [] site = "status_reporter" -> StatusReporterCode(step)
          [] site = "cancelled" -> Instr("halt", "", {}, {})

\* The next operation of task t, and the guards it holds.
Cur(t) == Code(k_pc[t])

Holds(t) == {l \in Locks : lock_owner[l] = t}

\* process_websocket after the subscription: the two background tasks were
\* spawned and sleep, no guard exists, the channel is empty.
KInit ==
    /\ k_pc = [t \in Tasks |-> CASE t = "main" -> <<"process_websocket", "recv">>
                                 [] t = "checker" -> <<"block_checker", "sleep">>
                                 [] t = "reporter" -> <<"status_reporter", "sleep">>]
    /\ lock_owner = [l \in Locks |-> "free"]
    /\ k_chan = <<>>
    /\ worker_alive = TRUE
    /\ aborted = FALSE
    /\ lock_pairs = {}

\* mutex.lock().await returns the guard once no other guard exists.
LockAcquire(t) ==
    /\ Cur(t).op = "lock"
    /\ lock_owner[Cur(t).arg] = "free"
    /\ lock_owner' = [lock_owner EXCEPT ![Cur(t).arg] = t]
    /\ lock_pairs' = lock_pairs \cup {<<h, Cur(t).arg>> : h \in Holds(t)}
    /\ \E n \in Cur(t).next : k_pc' = [k_pc EXCEPT ![t] = n]
    /\ UNCHANGED <<k_chan, worker_alive, aborted>>
    /\ UNCHANGED nonkvars

\* The synchronous code under a guard, up to its drop.
LockRelease(t) ==
    /\ Cur(t).op = "unlock"
    /\ lock_owner' = [lock_owner EXCEPT ![Cur(t).arg] = "free"]
    /\ \E n \in Cur(t).next : k_pc' = [k_pc EXCEPT ![t] = n]
    /\ UNCHANGED <<k_chan, worker_alive, aborted, lock_pairs>>
    /\ UNCHANGED nonkvars

\* persist_sender.send(..).await: returns Ok once the channel has room.
ChanSend(t) ==
    /\ Cur(t).op = "send"
    /\ worker_alive /\ Len(k_chan) < PersistCapacity
    /\ k_chan' = Append(k_chan, Cur(t).arg)
    /\ \E n \in Cur(t).next : k_pc' = [k_pc EXCEPT ![t] = n]
    /\ UNCHANGED <<lock_owner, worker_alive, aborted, lock_pairs>>
    /\ UNCHANGED nonkvars

\* persist_sender.send(..).await: Err once the worker dropped the receiver.
ChanSendFails(t) ==
    /\ Cur(t).op = "send"
    /\ ~worker_alive
    /\ \E n \in Cur(t).err : k_pc' = [k_pc EXCEPT ![t] = n]
    /\ UNCHANGED <<lock_owner, k_chan, worker_alive, aborted, lock_pairs>>
    /\ UNCHANGED nonkvars

\* A sleep ends, the websocket yields a message or the ping was written.
AwaitIo(t) ==
    /\ Cur(t).op = "io"
    /\ \E n \in Cur(t).next : k_pc' = [k_pc EXCEPT ![t] = n]
    /\ UNCHANGED <<lock_owner, k_chan, worker_alive, aborted, lock_pairs>>
    /\ UNCHANGED nonkvars

\* process_websocket after its loop: status_task.abort(); blocks_task.abort().
AbortTasks ==
    /\ Cur("main").op = "abort"
    /\ aborted' = TRUE
    /\ \E n \in Cur("main").next : k_pc' = [k_pc EXCEPT !["main"] = n]
    /\ UNCHANGED <<lock_owner, k_chan, worker_alive, lock_pairs>>
    /\ UNCHANGED nonkvars

\* An aborted task is dropped at an await; the guards it holds go with it.
Cancel(t) ==
    /\ aborted /\ t # "main"
    /\ Cur(t).op \in {"lock", "send", "io"}
    /\ k_pc' = [k_pc EXCEPT ![t] = <<"cancelled", "">>]
    /\ lock_owner' = [l \in Locks |-> IF lock_owner[l] = t THEN "free" ELSE lock_owner[l]]
    /\ UNCHANGED <<k_chan, worker_alive, aborted, lock_pairs>>
    /\ UNCHANGED nonkvars

\* persistence_worker: receiver.recv() yields the next message; Shutdown ends
\* the worker, which drops the receiver and what is left in the channel.
PersistenceWorkerRecv ==
    /\ worker_alive /\ k_chan # <<>>
    /\ IF Head(k_chan) = "Shutdown"
       THEN worker_alive' = FALSE /\ k_chan' = <<>>
       ELSE worker_alive' = TRUE /\ k_chan' = Tail(k_chan)
    /\ UNCHANGED <<k_pc, lock_owner, aborted, lock_pairs>>
    /\ UNCHANGED nonkvars

KNext ==
    \/ \E t \in Tasks : LockAcquire(t)
    \/ \E t \in Tasks : LockRelease(t)
    \/ \E t \in Tasks : ChanSend(t)
    \/ \E t \in Tasks : ChanSendFails(t)
    \/ \E t \in Tasks : AwaitIo(t)
    \/ AbortTasks
    \/ \E t \in Tasks : Cancel(t)
    \/ PersistenceWorkerRecv

(***************************************************************************)
(* The end of the backfill: the queue of HistoricSync with the fetcher's   *)
(* pushes, the running writers and wait_for_queue_to_empty.                *)
(***************************************************************************)
\* A fetcher worker pushes a block; fetch_blocks_range has returned, and with
\* it every push, before wait_for_queue_to_empty is called.
FetcherPushStep(p) ==
    /\ ~historic_sync_complete
    /\ \/ TryPushAcquire(p)
       \/ TryPushFull(p)
       \/ TryPushEnqueue(p)
       \/ PushCall(p)
       \/ PushAcquire(p)
       \/ PushEnqueue(p)

\* A step of a writer in the main loop of worker_loop.
WriterLoopStep(w) ==
    \/ WCheckStatus(w)
    \/ WTryPop(w)
    \/ WRelease(w)
    \/ WSaveOk(w)
    \/ WSaveErr(w)
    \/ WRequeueTryPush(w)
    \/ WRequeueEnqueue(w)

\* wait_for_queue_to_empty finds block_queue.is_empty() after the last push
\* returned, and HistoricSync::start sets historic_sync_complete.  (The
\* watermark it writes with the flag belongs to the sync model.)
WaitForQueueToEmpty ==
    /\ ~historic_sync_complete
    /\ \A p \in Producers : ppc[p] = "idle"
    /\ QueueIsEmpty
    /\ historic_sync_complete' = TRUE
    /\ UNCHANGED nonyvars
    /\ UNCHANGED <<chain_head, config, latest_synced_block, histvars, fwvars, pushed, logged,
                   failures, livevars, in_queue, wait_elapsed, batches_completed>>

CompleteNext ==
    \/ \E p \in Producers : FetcherPushStep(p)
    \/ ProcStart
    \/ \E w \in Writers : WriterLoopStep(w)
    \/ WaitForQueueToEmpty

(***************************************************************************)
(* Specifications                                                          *)
(***************************************************************************)
Init ==
    /\ QInit /\ SInit /\ YInit /\ DInit /\ MInit /\ PInit /\ RInit /\ TInit /\ BInit
    /\ KInit

SpecQueue == Init /\ [][QNext]_vars

SpecShred == Init /\ [][SNext]_vars

SpecSync == Init /\ [][YNext]_vars

SpecStore == Init /\ [][DNext]_vars

SpecMain == Init /\ [][MNext]_vars

SpecPersist == Init /\ [][PNext]_vars

SpecPush == Init /\ [][RNext]_vars

SpecThrottle == Init /\ [][TNext]_vars

SpecDrain == Init /\ [][DrainNext]_vars /\ WorkersFair

SpecRetry == Init /\ [][BNext]_vars

SpecLocks == Init /\ [][KNext]_vars

SpecTeardown == Init /\ [][TeardownNext]_vars

SpecComplete == Init /\ [][CompleteNext]_vars

(***************************************************************************)
(* Claims on the BlockQueue                                                *)
(***************************************************************************)
\* Instances residing in the queue.
QueueIds == {q_items[i].id : i \in DOMAIN q_items}

C2_SingleOwnership ==
    /\ \A w \in Writers : wheld[w].id \notin QueueIds
    /\ \A w1, w2 \in Writers :
          (w1 # w2 /\ wheld[w1].id # 0) => wheld[w1].id # wheld[w2].id
    /\ \A i, j \in DOMAIN q_items : i # j => q_items[i].id # q_items[j].id
    /\ \A b \in BlockIds : pops[b] <= pushes[b]
    /\ \A b \in BlockIds :
          pushes[b] - pops[b] = Cardinality({i \in DOMAIN q_items : q_items[i].id = b})

\* C2 witness: an instance that was re-enqueued after a failed save has been
\* delivered a second time and is held by a worker while the other worker
\* holds another instance.
C2_Witness ==
    \E w1, w2 \in Writers :
        /\ w1 # w2
        /\ wheld[w1].id # 0 /\ pops[wheld[w1].id] = 2
        /\ wheld[w2].id # 0

(***************************************************************************)
(* Claims on the shred pipeline                                            *)
(***************************************************************************)
RECURSIVE SumTransactions(_)
SumTransactions(shreds) ==
    IF shreds = <<>> THEN 0 ELSE Head(shreds).ntx + SumTransactions(Tail(shreds))

RECURSIVE SumStateChanges(_)
SumStateChanges(shreds) ==
    IF shreds = <<>> THEN 0 ELSE Head(shreds).nsc + SumStateChanges(Tail(shreds))

\* The block numbers some message on the persistence channel carries.
SentNumbers == {persist_chan[i].block.number : i \in DOMAIN persist_chan}

\* C3: every block of the active-blocks map with is_persisted = false has
\* shred_count equal to the number of its buffered shreds, transaction_count
\* equal to the sum of their transaction counts and state_change_count equal
\* to the sum of their state-change counts.
C3_CountsMatchBuffer ==
    \A n \in DOMAIN active_blocks :
        ~active_blocks[n].is_persisted =>
            /\ active_blocks[n].shred_count = Len(active_blocks[n].buffered_shreds)
            /\ active_blocks[n].transaction_count
                   = SumTransactions(active_blocks[n].buffered_shreds)
            /\ active_blocks[n].state_change_count
                   = SumStateChanges(active_blocks[n].buffered_shreds)

\* C3 witness: a block that was already sent to the persistence worker got a
\* further shred and is unpersisted again, holding two shreds with
\* transactions and state changes.
C3_Witness ==
    \E n \in DOMAIN active_blocks :
        /\ ~active_blocks[n].is_persisted
        /\ n \in SentNumbers
        /\ active_blocks[n].shred_count = 2
        /\ active_blocks[n].transaction_count > 0
        /\ active_blocks[n].state_change_count > 0

\* A step of process_message.
HandlerStep == hpc' # hpc

\* Block k of the map is inserted, removed or modified by the step.
MapChanged(k) ==
    \/ (k \in DOMAIN active_blocks) # (k \in DOMAIN active_blocks')
    \/ /\ k \in DOMAIN active_blocks /\ k \in DOMAIN active_blocks'
       /\ active_blocks[k] # active_blocks'[k]

\* C5: when add_shred meets a shred whose (block_number, shred_idx) is already
\* buffered, duplicate_count and blocks_dropped_count each grow by exactly one
\* (once, in the duplicate path, and in no other step), and when add_shred
\* returns the map holds for that block number a block whose only buffered
\* shred is the second arrival, with shred_count = 1, and the list of blocks
\* to persist is empty.
C5_DuplicateDropsBlock ==
    [][/\ (HandlerStep /\ hpc = "add_shred" /\ IsDuplicate(active_blocks, h_shred))
             => /\ hpc' = "dup_count"
                /\ UNCHANGED <<active_blocks, duplicate_count, blocks_dropped_count>>
       /\ (HandlerStep /\ hpc = "dup_count")
             => /\ duplicate_count' = duplicate_count + 1
                /\ blocks_dropped_count' = blocks_dropped_count + 1
                /\ hpc' = "dup_reset"
       /\ ~(HandlerStep /\ hpc = "dup_count")
             => UNCHANGED <<duplicate_count, blocks_dropped_count>>
       /\ (HandlerStep /\ hpc = "dup_reset")
             => /\ h_shred.block_number \in DOMAIN active_blocks'
                /\ active_blocks'[h_shred.block_number].buffered_shreds = <<h_shred>>
                /\ active_blocks'[h_shred.block_number].shred_count = 1
                /\ h_to_persist' = <<>>
                /\ UNCHANGED persist_chan
      ]_vars

\* C5 witness: add_shred has just returned from the duplicate path for the
\* third shred of a block whose first two shreds were the only ones handled
\* before.
C5_Witness ==
    /\ hpc = "buf_check" /\ h_dup
    /\ shred_counter = 2 /\ n_recv = 3
    /\ duplicate_count = 1 /\ blocks_dropped_count = 1
    /\ DOMAIN active_blocks = {h_shred.block_number}
    /\ active_blocks[h_shred.block_number].shred_count = 1
    /\ persist_chan = <<>>

\* C6: when a non-duplicate shred of block N is ingested, exactly the
\* unpersisted blocks of the map with a number below N are collected, each
\* with the shreds and counts it had accumulated, and sent to the persistence
\* worker; block N is created or updated with the new shred; and the ingest
\* path modifies, removes or sends no block other than those and block N.
C6_BoundaryTrigger ==
    [][LET N == h_shred.block_number
           lower == {active_blocks[k] :
                        k \in {x \in DOMAIN active_blocks :
                                  x < N /\ ~active_blocks[x].is_persisted}}
           collected == {h_to_persist[i] : i \in DOMAIN h_to_persist}
       IN  /\ (HandlerStep /\ hpc = "add_shred" /\ ~IsDuplicate(active_blocks, h_shred))
                 => /\ {h_to_persist'[i] : i \in DOMAIN h_to_persist'} = lower
                    /\ Len(h_to_persist') = Cardinality(lower)
                    /\ N \in DOMAIN active_blocks'
                    /\ active_blocks'[N].shred_count =
                           (IF N \in DOMAIN active_blocks
                            THEN active_blocks[N].shred_count ELSE 0) + 1
                    /\ active_blocks'[N].buffered_shreds =
                           Append(IF N \in DOMAIN active_blocks
                                  THEN active_blocks[N].buffered_shreds ELSE <<>>, h_shred)
                    /\ \A k \in BlockNums \ {N} : ~MapChanged(k)
           /\ (HandlerStep /\ hpc # "idle" /\ ~h_dup)
                 => /\ \A k \in BlockNums :
                          MapChanged(k) => (k = N \/ \E b \in collected' : b.number = k)
                    /\ persist_chan' # persist_chan =>
                          /\ Len(persist_chan') = Len(persist_chan) + 1
                          /\ LET msg == persist_chan'[Len(persist_chan')]
                             IN  msg.block \in collected \/ msg.block.number = N
           /\ (HandlerStep /\ hpc' = "buf_check" /\ ~h_dup')
                 => \A b \in collected' :
                        \E i \in DOMAIN persist_chan' :
                            persist_chan'[i] = PersistBlockMsg(b, "ingest", n_recv)
      ]_vars

\* C6 witness: a shred of a higher block has been ingested while the map held
\* an unpersisted block with two shreds, and that block has been sent with
\* shred_count = 2.
C6_Witness ==
    /\ hpc = "buf_check" /\ ~h_dup
    /\ Len(h_to_persist) = 1
    /\ h_to_persist[1].shred_count = 2
    /\ h_to_persist[1].number < h_shred.block_number
    /\ persist_chan = <<PersistBlockMsg(h_to_persist[1], "ingest", n_recv)>>
    /\ active_blocks[h_shred.block_number].shred_count = 1

\* The blocks the block checker has sent in its current scan, by the scan that
\* sent them.
ScanSent(by) ==
    {persist_chan[i].block :
        i \in {j \in DOMAIN persist_chan :
                  persist_chan[j].by = by /\ persist_chan[j].seq = c_runs}}

C4_WatermarkMonotone == [][latest_synced_block' >= latest_synced_block]_vars

\* C7: once fetch_blocks_range(s, e) has returned, every block number k of
\* [s, e] was pushed to the block queue or is covered by a logged error, for
\* every rpc_batch_size and max_concurrent_batches and every pattern of
\* failures.
C7_FetchRangeComplete ==
    hist_pc = "advance" =>
        \A k \in hist_current..hist_batch_end : PushCount(pushed, k) > 0 \/ k \in logged

\* C8: when a backfill from the configured start s to a tip t > s completes
\* without an RPC failure, with rpc_batch_size >= 1, max_concurrent_batches >= 1
\* and batch_size >= 1, every block number of [s, t] was pushed to the queue
\* exactly once and no other number was pushed.
C8_BackfillExactlyOnce ==
    (/\ hist_pc = "done" /\ hist_end > hist_start
     /\ logged = {}
     /\ rpc_batch_size >= 1 /\ max_concurrent_batches >= 1 /\ batch_size >= 1)
        => /\ DOMAIN pushed = hist_start..hist_end
           /\ \A k \in DOMAIN pushed : pushed[k] = 1

\* A backfill of the whole backlog in two outer batches, the first of two RPC
\* batches shared by two workers, has completed.
C8_Witness ==
    /\ hist_pc = "done" /\ logged = {}
    /\ hist_start = start_block /\ hist_end = start_block + MaxBacklog
    /\ batch_size = MaxBatchSize /\ rpc_batch_size = MaxRpcBatchSize
    /\ max_concurrent_batches = MaxWorkers
    /\ DOMAIN pushed = hist_start..hist_end

\* C9: when the subscription delivers block n with n > watermark + 1, every
\* block of [watermark + 1, n - 1] is pushed to the queue after the notification
\* arrived and before block n is pushed, and the watermark is n afterwards.
C9_GapFilledBeforeHead ==
    [][(live_pc = "head" /\ live_pc' = "listen" /\ live_n > latest_synced_block + 1)
          => /\ \A k \in (latest_synced_block + 1)..(live_n - 1) :
                    \E i \in (notif_mark + 1)..Len(live_pushed) : live_pushed[i] = k
             /\ live_pushed' = Append(live_pushed, live_n)
             /\ latest_synced_block' = live_n]_vars


(***************************************************************************)
(* Claims C11..C20                                                         *)
(***************************************************************************)
\* The positions of the persistence channel that carry block number n.
MsgsFor(n) == {i \in DOMAIN persist_chan : persist_chan[i].block.number = n}

\* Every shred received so far went, in index order, into the tracked block
\* number n, and no other block is tracked.
SingleInOrder(n) ==
    /\ hpc = "idle"
    /\ DOMAIN active_blocks = {n}
    /\ active_blocks[n].shred_count = n_recv
    /\ \A i, j \in DOMAIN active_blocks[n].buffered_shreds :
          i < j => active_blocks[n].buffered_shreds[i].shred_idx
                     < active_blocks[n].buffered_shreds[j].shred_idx

\* The last scan of the block checker has finished, and it ran when b was
\* already BUFFER_TIME_SECS old.
ScannedWhenDue(b) ==
    /\ cpc = "sleep" /\ c_runs > 0
    /\ (c_wake - CHECK_INTERVAL_SECS) - b.last_update_time >= BUFFER_TIME_SECS

\* The message carries every shred of b and the statistics of the claim.
CarriesAll(msg, b) ==
    LET buf == b.buffered_shreds
        first_ts == Unwrap(buf[1].timestamp)
        last_ts == Unwrap(buf[Len(buf)].timestamp)
    IN  /\ msg.block.buffered_shreds = buf
        /\ msg.block.shred_count = Len(buf)
        /\ msg.block.first_shred_id = Some(buf[1].shred_idx)
        /\ msg.block.last_shred_id = Some(buf[Len(buf)].shred_idx)
        /\ msg.block.block_time = Some((last_ts - first_ts) * 1000)
        /\ Len(buf) >= 2 =>
              /\ msg.block.avg_shred_interval # None
              /\ QuotEq(Unwrap(msg.block.avg_shred_interval),
                        Quot((last_ts - first_ts) * 1000, Len(buf) - 1))

\* Exactly one message for block n once a scan has found it due, never more
\* than one, and each carries all of the block.
ExactlyOnePersist(n) ==
    /\ Cardinality(MsgsFor(n)) <= 1
    /\ ScannedWhenDue(active_blocks[n]) => Cardinality(MsgsFor(n)) = 1
    /\ \A i \in MsgsFor(n) : CarriesAll(persist_chan[i], active_blocks[n])

\* C11: for a single block whose shreds arrive in index order and with no
\* later block, exactly one PersistBlock message is ever sent (one once a scan
\* has found the block due, never two), and it carries all the shreds with
\* first/last index, block_time = last arrival - first arrival and
\* avg_shred_interval = block_time / (shred_count - 1).
C11_ExactlyOnePersist ==
    \A n \in BlockNums : SingleInOrder(n) => ExactlyOnePersist(n)

\* A producer's try_push call: try_acquire succeeds, or fails and false is
\* returned (a repeated false changes nothing and is not a step).
TryPushTrue(p) == ppc[p] = "idle" /\ ppc'[p] = "try_enq"
TryPushFalse(p) == ppc[p] = "idle" /\ ppc'[p] = "idle"
                      /\ presult[p] # "false" /\ presult'[p] = "false"
\* The successful call completes: the block is added and true is returned.
TryPushAdds(p) ==
    (ppc[p] = "try_enq" /\ ppc'[p] # "try_enq") =>
        q_items' = Append(q_items, pblk[p]) /\ presult'[p] = "true"
\* The try_push of a writer that re-enqueues.
RequeueTrue(w) == wpc[w] = "requeue" /\ wpc'[w] = "requeue_enq"
RequeueFalse(w) == wpc[w] = "requeue" /\ wpc'[w] = "check"

\* Each step of a try_push call can be taken at once, whatever the others do.
TryPushNeverSuspends(p) ==
    /\ (ppc[p] = "idle" /\ nextId <= MaxBlocks /\ TryFails < MaxTryFails) =>
           ENABLED (TryPushAcquire(p) \/ TryPushFull(p))
    /\ ppc[p] = "try_enq" => ENABLED TryPushEnqueue(p)

\* try_push succeeds iff `room` holds at the call; false changes neither the
\* queue contents nor the permit count.
TryPushIff(room) ==
    /\ \A p \in Producers :
          /\ TryPushTrue(p) => room
          /\ TryPushFalse(p) => ~room /\ UNCHANGED <<q_items, permits>>
          /\ TryPushAdds(p)
    /\ \A w \in Writers :
          /\ RequeueTrue(w) => room
          /\ RequeueFalse(w) => ~room /\ UNCHANGED <<q_items, permits>>

NoConsumer == \A w \in Writers : wpc[w] = "unspawned"
\* Every block created so far was created by a try_push that found a permit:
\* push was never called.
OnlyTryPush == Cardinality({i \in DOMAIN try_log : try_log[i]}) = nextId - 1

Quiescent ==
    /\ \A p \in Producers : ppc[p] \notin {"try_enq", "push_enq"}
    /\ \A w \in Writers : wpc[w] \notin {"release", "drain_release", "requeue_enq"}

\* One try_pop of writer w: an empty pop releases nothing, a pop that took a
\* block is followed by the release of exactly one permit.
TryPopReleases(w) ==
    /\ (wpc[w] \in {"pop", "drain"} /\ wpc'[w] # wpc[w]) =>
          /\ permits' = permits
          /\ IF q_items = <<>>
             THEN q_items' = q_items /\ wpc'[w] \notin {"release", "drain_release"}
             ELSE q_items' = Tail(q_items) /\ wpc'[w] \in {"release", "drain_release"}
    /\ (wpc[w] \in {"release", "drain_release"} /\ wpc'[w] # wpc[w]) =>
          permits' = permits + 1 /\ q_items' = q_items

RowsOf(n) == {i \in DOMAIN table : table[i].values.number = n}
\* The saves of block number n, and the last of them.
SavesOf(n) == {i \in DOMAIN saved : saved[i].number = n}
LastSaveOf(n) == saved[Max(SavesOf(n))]
\* What the table holds of the Blocks: the bound values of its rows.
TableValues == {table[i].values : i \in DOMAIN table}
\* What a single save of b into an empty table leaves of b.
SingleSaveValues(b) == Upsert(<<>>, b, db_now)[1].values

\* C16: saving the same Block twice, or the same number twice with identical
\* content, leaves exactly one row for that number, whose values are those of
\* a single save; blocks saved out of number order leave the same values in
\* the table as blocks saved in order.  (When the saves of one number differ,
\* the row has the values of the last one.)
C16_SaveIdempotent ==
    /\ \A n \in 1..MaxNumber :
          /\ Cardinality(RowsOf(n)) = (IF SavesOf(n) = {} THEN 0 ELSE 1)
          /\ \A i \in RowsOf(n) : table[i].values = SingleSaveValues(LastSaveOf(n))
    /\ (\A i, j \in DOMAIN saved : saved[i].number = saved[j].number => saved[i] = saved[j])
          => TableValues = {SingleSaveValues(saved[i]) : i \in DOMAIN saved}

\* C16 witness: block 2 was saved before block 1, block 1 was then saved a
\* second time with the same content at a later time; the table has the two
\* rows, and the row of block 1 was updated after it was created.
C16_Witness ==
    /\ Len(saved) = 3
    /\ saved[1].number = 2 /\ saved[2].number = 1 /\ saved[3] = saved[2]
    /\ saved[2].total_difficulty = None
    /\ Len(table) = 2
    /\ \E i \in RowsOf(1) : table[i].updated_at > table[i].created_at

\* C15: for any single producer, the blocks it pushed (with push or
\* try_push) are returned by try_pop in the order it pushed them: b2, pushed
\* after b1 by the same producer, has not been returned as long as b1 has not,
\* whatever the other producers and the writers do.  (A block that a writer
\* re-enqueued after a failed save is returned a second time, after others.)
C15_FifoPerProducer ==
    \A b1, b2 \in BlockIds :
        (/\ b1 < b2
         /\ pushed_by[b1] # 0 /\ pushed_by[b1] = pushed_by[b2]
         /\ pops[b2] > 0)
            => pushes[b1] > 0 /\ pops[b1] > 0

\* C15 witness: one producer pushed blocks 1 and 3, the other pushed block 2
\* between them; 1 has been returned by try_pop, 3 has been pushed and not
\* yet returned, both writers are running.
C15_Witness ==
    /\ pushed_by[1] = 1 /\ pushed_by[2] = 2 /\ pushed_by[3] = 1
    /\ pops[1] > 0 /\ pops[3] = 0 /\ pushes[3] > 0
    /\ \A w \in Writers : wpc[w] # "unspawned"

\* The instances that a writer holds.
HeldIds == {wheld[w].id : w \in Writers} \ {0}
\* Instance b is the only one of its number created so far.
OnlyOfItsNumber(b) ==
    \A c \in 1..(nextId - 1) : NewBlock(c).number = NewBlock(b).number => c = b

\* The steps of writer w after db.save_block has failed in the running loop.
RequeueSteps(w) ==
    /\ (wpc[w] = "save" /\ wpc'[w] = "requeue") =>
          wheld'[w] = wheld[w] /\ store' = store /\ q_items' = q_items
    /\ (wpc[w] = "requeue" /\ wpc'[w] # "requeue") =>
          IF QueueLen < QueueCapacity
          THEN /\ wpc'[w] = "requeue_enq" /\ wheld'[w] = wheld[w]
               /\ permits' = permits - 1 /\ dropped' = dropped
          ELSE /\ wpc'[w] = "check" /\ wheld'[w] = NoBlock
               /\ wheld[w].id \in dropped' \ (QueueIds' \cup HeldIds')
               /\ q_items' = q_items /\ permits' = permits /\ store' = store
    /\ (wpc[w] = "requeue_enq" /\ wpc'[w] # "requeue_enq") =>
          /\ q_items' = Append(q_items, wheld[w])
          /\ wpc'[w] = "check" /\ wheld'[w] = NoBlock

StoppedByStop == status = "Stopped" /\ \E w \in Writers : wpc[w] # "unspawned"

\* C18: the status transitions are monotonic except Paused <-> Running: once
\* stop() has set the status to Stopped it never becomes Running or Paused
\* again under any sequence of start, pause, resume and stop; the status
\* becomes Paused only from Running, and a Paused status is left only for
\* Running (resume) or Stopped (stop).
C18_StoppedIsFinal ==
    [][/\ StoppedByStop => status' = "Stopped"
       /\ (status' = "Paused" /\ status # "Paused") => status = "Running"
       /\ (status = "Paused" /\ status' # "Paused") => status' \in {"Running", "Stopped"}]_vars

\* The final outer batch has been fetched: fetch_blocks_range has returned
\* for the batch that ends at end_block (every fetch worker it spawned has
\* exited) and process_blocks_concurrent went past end_block.
FinalBatchFetched ==
    /\ hist_current > hist_end /\ hist_batch_end = hist_end
    /\ \A w \in Workers : fw_pc[w] \in {"none", "exit"}

\* HistoricSync::start has returned an error.
HistFailed == hist_pc \in {"failed", "failed_other"}

\* C19: for start < tip HistoricSync sets historic_sync_complete only after
\* the final outer batch has been fetched and the queue has then been observed
\* empty; when a poll made after the 600-second ceiling still finds blocks in
\* the queue, start() fails with SyncError::Other, and the flag stays false.
C19_CompleteAfterDrain ==
    /\ [][(~historic_sync_complete /\ historic_sync_complete' /\ hist_start < hist_end) =>
             /\ hist_pc = "wait" /\ FinalBatchFetched /\ in_queue = 0
             /\ hist_pc' = "done"]_vars
    /\ [](hist_pc = "wait" => FinalBatchFetched /\ ~historic_sync_complete)
    /\ [][(hist_pc = "wait" /\ hist_pc' # "wait") =>
             IF in_queue = 0 THEN hist_pc' = "done" /\ historic_sync_complete'
             ELSE /\ wait_elapsed > MAX_WAIT_SECS
                  /\ hist_pc' = "failed_other" /\ ~historic_sync_complete']_vars
    /\ []((hist_pc = "wait" /\ in_queue > 0 /\ wait_elapsed > MAX_WAIT_SECS) =>
             ENABLED HistQueueTimeout /\ ~ENABLED HistWaitSleep /\ ~ENABLED HistComplete)
    /\ [][HistFailed => hist_pc' = hist_pc /\ ~historic_sync_complete']_vars

\* C19 witness: the backfill of at least two blocks has pushed blocks, the
\* queue was still not empty at a poll after the ceiling, and start() has
\* failed with Other while the flag is false.
C19_Witness ==
    /\ hist_pc = "failed_other" /\ ~historic_sync_complete
    /\ hist_start < hist_end /\ FinalBatchFetched
    /\ in_queue > 0 /\ wait_elapsed > MAX_WAIT_SECS

\* The live follower has done nothing: it has not subscribed, fetched or
\* pushed a block, and has not read or written a watermark.
LiveIdle ==
    /\ live_pc = "wait" /\ ws_stream = <<>> /\ live_pushed = <<>>
    /\ last_synced_block = 0 /\ cu_ret = "none" /\ cu_tasks = {}

\* C20: while historic_sync_complete is false the live follower subscribes to
\* nothing, fetches and enqueues no block and updates no watermark (every
\* write of the watermark is the backfill's); if the backfill fails the live
\* follower never ingests anything.
C20_LiveWaitsForBackfill ==
    /\ [](~historic_sync_complete => LiveIdle)
    /\ [][~historic_sync_complete =>
             /\ UNCHANGED livevars
             /\ latest_synced_block' # latest_synced_block =>
                   hist_pc \in {"advance", "wait"} /\ hist_pc' # hist_pc]_vars
    /\ [](HistFailed => ~historic_sync_complete /\ LiveIdle)
    /\ [][HistFailed => HistFailed' /\ UNCHANGED livevars]_vars

\* C20 witness: the backfill has fetched and pushed blocks and then failed on
\* its queue; the flag is false and the live follower has done nothing.
C20_Witness ==
    /\ hist_pc = "failed_other" /\ pushed # <<>>
    /\ ~historic_sync_complete /\ LiveIdle

(***************************************************************************)
(* Claims C21..C30                                                         *)
(***************************************************************************)
\* catch_up_blocks is running.
InCatchUp == live_pc \in {"cu_seq", "cu_spawn", "cu_run"}

\* A polling round has succeeded: the catch-up of [watermark+1, tip] that
\* start_http_polling called returns Ok.
PollRoundSucceeds ==
    /\ InCatchUp /\ cu_ret = "poll"
    /\ ~InCatchUp' /\ failures' = failures

\* C21: a failed subscription puts the live follower into fallback polling,
\* and after the next successful polling round it leaves polling and retries
\* the subscription.
C21_PollingRetriesSubscribe ==
    /\ [][(hist_pc = "done" /\ live_pc \in {"wait", "tip", "listen", "head"}
              /\ failures' > failures) =>
             live_pc' = "poll"]_vars
    /\ [][PollRoundSucceeds => live_pc' = "wait"]_vars

\* The start block as the specification words it; a difference that would be
\* negative counts as 0.
SpecStartBlock ==
    LET from_tip == Max({current_chain_tip - Unwrap(blocks_from_tip), 0})
        stored == IF db_latest = None THEN {} ELSE {Unwrap(db_latest)}
    IN  IF blocks_from_tip # None
        THEN Max({Max({from_tip, 0}), config_start_block} \cup stored)
        ELSE IF db_latest # None THEN Unwrap(db_latest) ELSE config_start_block

\* C22: the backfill starts at max(max(tip - blocks_from_tip, 0),
\* configured start, latest in store) when blocks_from_tip is configured (the
\* latest in store left out when the store is empty), else at the latest in
\* store if there is one, else at the configured start; if that start is at
\* or past the tip the backfill sets historic_sync_complete and returns, and
\* no block is fetched or pushed.
C22_StartBlock ==
    /\ [](hist_pc = "start" => latest_synced_block = SpecStartBlock)
    /\ [][hist_pc = "start" /\ hist_pc' # "start" =>
             /\ hist_start' = SpecStartBlock
             /\ IF SpecStartBlock >= chain_head
                THEN /\ historic_sync_complete' /\ hist_pc' = "done"
                     /\ latest_synced_block' = latest_synced_block
                ELSE ~historic_sync_complete' /\ hist_pc' = "loop"]_vars
    /\ [](hist_pc = "done" => historic_sync_complete /\ pushed = <<>> /\ work_queue = <<>>
                              /\ \A w \in Workers : fw_pc[w] = "none")

\* C22 witness: blocks_from_tip is configured and the store is not empty; the
\* start computed from the tip is above both the configured start and the
\* latest stored block and is not below the tip that HistoricSync::start
\* read, which has returned with the flag set.
C22_Witness ==
    /\ hist_pc = "done" /\ historic_sync_complete
    /\ blocks_from_tip # None /\ db_latest # None
    /\ hist_start > Unwrap(db_latest) /\ hist_start > config_start_block
    /\ hist_start >= hist_end /\ hist_end > 0

\* The tracked blocks whose persisted flag is set.
PersistedTracked == {n \in DOMAIN active_blocks : active_blocks[n].is_persisted}

\* C23: once the persisted flag of a tracked Block is set its buffered list is
\* empty, and no later operation changes that Block as long as it is in the
\* map.
C23_PersistedIsFrozen ==
    /\ [](\A n \in PersistedTracked : active_blocks[n].buffered_shreds = <<>>)
    /\ [][\A n \in PersistedTracked :
             n \in DOMAIN active_blocks' => active_blocks'[n] = active_blocks[n]]_vars

\* C24: in the persistence worker, when the header write of a block fails
\* after the block's shred rows were committed, the process terminates with a
\* non-zero exit code, and the worker never goes on to a later message.
C24_PartialWriteTerminates ==
    /\ [](partial # {} => exit_code # None /\ Unwrap(exit_code) # 0)
    /\ [][partial # {} => pw_read' = pw_read]_vars

\* The PersistBlock messages sent before position i of the channel.
PersistMsgsBefore(i) ==
    {persist_chan[j] : j \in {k \in 1..(i - 1) : persist_chan[k].kind = "PersistBlock"}}

\* C25: at shutdown every Block of the map that is not persisted and has
\* buffered shreds is enqueued to the persistence worker before the Shutdown
\* message, and shutdown() returns only after the worker has processed all of
\* those messages and terminated.
C25_ShutdownFlushesAndJoins ==
    /\ [](\A i \in DOMAIN persist_chan : persist_chan[i].kind = "Shutdown" =>
             \A n \in DOMAIN active_blocks :
                 \E msg \in PersistMsgsBefore(i) :
                     /\ msg.block.number = n
                     /\ msg.block.buffered_shreds = active_blocks[n].buffered_shreds)
    /\ [](ctl_pc = "returned" => pw_pc = "stopped" /\ pw_read = Len(persist_chan))

\* The sleeps of a loop whose try_push has failed n times, with factor ms:
\* one after each failed call but the one that leads to the blocking push.
WaitsAfter(n, ms) == [k \in 1..(IF n < max_push_retries THEN n ELSE max_push_retries - 1) |-> ms * k]
\* The structure of the loop: at most max_push_retries try_push calls for one
\* block, the blocking push only after max_push_retries of them have failed.
RetryThenBlocking ==
    \A c \in Callers :
        /\ r_tries[c] <= max_push_retries
        /\ retry_count[c] <= r_tries[c]
        /\ r_pc[c] \in {"push", "push_enq"} =>
               r_tries[c] = max_push_retries /\ retry_count[c] = max_push_retries
\* A block is in the queue once when its loop is left, and not before one of
\* the loop's calls has put it there.
AddedExactlyOnce ==
    /\ \A i \in BlockIds : pushes[i] <= 1
    /\ \A i \in BlockIds : r_how[i] # "none" => r_how[i] \in {"try_push", "push"} /\ pushes[i] = 1
    /\ \A c \in Callers : r_pc[c] # "idle" => pushes[r_blk[c].id] = 0
\* C26: a caller with a converted block calls try_push at most 5 times and
\* falls back to the blocking push only after the 5th failed call; the fetcher
\* sleeps 500*attempt ms and the live follower 100*attempt ms after each of
\* the first four failed calls, and neither sleeps after the fifth; the block
\* is added to the queue exactly once by the time the loop is left.
C26_PushWithRetry ==
    /\ RetryThenBlocking
    /\ AddedExactlyOnce
    /\ \A c \in Callers : r_waits[c] = WaitsAfter(retry_count[c], RetryWaitMs(c))
\* The live follower has pushed a block with the blocking push after five
\* failed try_push calls and four sleeps.
C26_Witness ==
    /\ r_pc["live"] = "idle"
    /\ r_tries["live"] = max_push_retries
    /\ r_waits["live"] = <<100, 200, 300, 400>>
    /\ \E i \in BlockIds : r_how[i] = "push" /\ pushes[i] = 1
\* C26 as stated: both callers sleep 500*attempt ms after each failed try_push.
C26_SameWaitsEveryAttempt ==
    /\ RetryThenBlocking
    /\ AddedExactlyOnce
    /\ \A c \in Callers : r_waits[c] = [k \in 1..retry_count[c] |-> FETCHER_RETRY_WAIT_MS * k]

\* The sleep the fill level calls for when each boundary belongs to the
\* higher tier.
TierSleepMs(queue_size, capacity) ==
    CASE queue_size * 100 >= 90 * capacity -> 5000
      [] queue_size * 100 >= 75 * capacity /\ queue_size * 100 < 90 * capacity -> 1000
      [] queue_size * 100 >= 50 * capacity /\ queue_size * 100 < 75 * capacity -> 500
      [] OTHER -> 0
\* C27: the throttle sleeps 5000 ms when len*100 >= 90*capacity, 1000 ms from
\* 75% up to below 90%, 500 ms from 50% up to below 75% and not at all below
\* 50%: a fill level of exactly 90%, 75% or 50% is in the higher tier.
C27_ThrottleTiers ==
    t_sleep # None => Unwrap(t_sleep) = TierSleepMs(t_queue_size, t_capacity)

\* add_shred has found a duplicate and has not yet put the fresh block in
\* the place of the old one.
InDuplicateHandling == hpc \in {"dup_count", "dup_reset"}
\* A step of the block checker that takes the lock of the map: one of its two
\* scans, or the mark of persist_block.
CheckerTakesLock == cpc \in {"sleep", "criteria", "stale_mark", "flush_mark"} /\ cpc' # cpc
\* A step that sends a PersistBlock message for block number n.
SendsBlock(n) ==
    /\ Len(persist_chan') = Len(persist_chan) + 1
    /\ persist_chan'[Len(persist_chan')].block.number = n
\* C28: from the detection of a duplicate to the insertion of the fresh block
\* nothing else touches the map: the block checker neither scans it nor marks
\* a block in it, the map changes only by the reset itself, and no
\* PersistBlock message for the block being dropped is sent.
C28_DuplicateHandlingAtomic ==
    /\ [][InDuplicateHandling => ~CheckerTakesLock]_vars
    /\ [][(InDuplicateHandling /\ hpc' # "buf_check") => active_blocks' = active_blocks]_vars
    /\ [][InDuplicateHandling => ~SendsBlock(h_shred.block_number)]_vars

\* The worker_loop task w is running.
WorkerAlive(w) == wpc[w] \notin {"unspawned", "done"}
\* Worker w is in the loop that follows its main loop.
InDrain(w) == wpc[w] \in {"drain", "drain_release", "drain_save"}
\* Every worker that was started has returned.
AllWorkersExited == \A w \in Writers : ~WorkerAlive(w)
CappedDelay(base_delay, e) ==
    IF base_delay = 0 THEN 0
    ELSE IF e >= 16 THEN MAX_BACKOFF_MS
    ELSE IF base_delay * Pow2(e) < MAX_BACKOFF_MS THEN base_delay * Pow2(e)
    ELSE MAX_BACKOFF_MS
\* C30: with_retry invokes the operation at most max_retries + 1 times and
\* returns: Ok at the first invocation that succeeds, the error of the last
\* invocation once max_retries + 1 of them have failed; and the backoff for
\* attempt a, before the jitter, is min(retry_delay * 2^(a-1), 60000) ms.
C30_WithRetryBounded ==
    /\ invocations <= b_max_retries + 1
    /\ invocations = attempt
    /\ b_pc = "returned" => b_result \in {"Ok", "Err"}
    /\ b_result = "Err" => invocations = b_max_retries + 1 /\ b_err_of = invocations
    /\ (b_pc = "invoke" /\ max_delay # None) =>
           Unwrap(max_delay) = CappedDelay(b_retry_delay, attempt - 1)

\* fetch_blocks_range: total_batches = batch_ranges.len(), of the range being fetched.
total_batches == Len(CreateBatchRanges(hist_current, hist_batch_end))

\* join_all has every spawned worker's result: each worker left its loop.
WorkersJoined == hist_pc = "fetch" /\ \A w \in Workers : fw_pc[w] \in {"none", "exit"}

\* C31: a sub-range whose fetch fails neither aborts the range fetch nor
\* stops another worker: the failing worker counts the batch as completed and
\* takes the next one, the other workers and the batches left are untouched;
\* with at least one worker the completed-batch counter equals the number of
\* sub-ranges when the workers are joined, and fetch_blocks_range returns Ok
\* (the outer batch goes on to advance the watermark).
C31_FailedBatchCounted ==
    [][/\ \A w \in Workers :
             (fw_pc[w] = "rpc" /\ fw_pc'[w] = "pop")
                 => /\ \A v \in Workers \ {w} : fw_pc'[v] = fw_pc[v]
                    /\ work_queue' = work_queue
                    /\ batches_completed' = batches_completed + 1
                    /\ hist_pc' = "fetch"
       /\ (hist_pc = "fetch" /\ hist_pc' # "fetch")
             => /\ hist_pc' = "advance"
                /\ max_concurrent_batches >= 1 => batches_completed = total_batches
      ]_vars

\* The workers of a range of three sub-ranges are joined; one sub-range failed
\* and a block of another one was pushed.
C31_Witness ==
    /\ WorkersJoined /\ max_concurrent_batches >= 1
    /\ total_batches = 3 /\ batches_completed = 3
    /\ \E k \in hist_current..hist_batch_end : k \in logged
    /\ \E k \in hist_current..hist_batch_end : PushCount(pushed, k) > 0

\* The task's next operation is an await: a lock, a send, a sleep or a read.
Awaits(t) == Cur(t).op \in {"lock", "send", "io"}

\* The task that holds the lock t is waiting for, or "none".
WaitsFor(t) ==
    IF Cur(t).op = "lock" /\ lock_owner[Cur(t).arg] # "free" THEN lock_owner[Cur(t).arg]
    ELSE "none"

\* t waits for a lock whose holder waits, directly or through the third
\* task, for a lock that t holds.
InWaitCycle(t) ==
    LET a == WaitsFor(t)
    IN  /\ a # "none"
        /\ IF a = t THEN TRUE
           ELSE LET b == WaitsFor(a)
                IN  /\ b # "none"
                    /\ IF b = t THEN TRUE
                       ELSE b # a /\ WaitsFor(b) = t

\* The orders in which two locks were or are about to be held together.
LockOrders ==
    lock_pairs \cup UNION {{<<h, Cur(t).arg>> : h \in Holds(t)} :
                               t \in {u \in Tasks : Cur(u).op = "lock"}}

\* C32: no task of the shred pipeline is at an await (a lock, a channel send,
\* a sleep or I/O) while it holds the guard of the active-blocks map; no two
\* of the locks active_blocks, duplicate_count, blocks_dropped_count, shred
\* counter and last-arrival timestamp are ever taken in two opposite orders;
\* no task waits for a lock in a cycle of waiting tasks, a task that ended
\* holds no guard, and a send waits only for the persistence worker, which
\* holds no lock: ingest, block checker, status reporter and shutdown flush
\* cannot deadlock.
C32_NoAwaitUnderMapLock ==
    /\ \A t \in Tasks : Awaits(t) => lock_owner["active_blocks"] # t
    /\ \A o \in LockOrders : <<o[2], o[1]>> \notin LockOrders
    /\ \A t \in Tasks : ~InWaitCycle(t)
    /\ \A t \in Tasks : Cur(t).op = "halt" => Holds(t) = {}
    /\ \A t \in Tasks : Cur(t).op = "send" => Holds(t) = {}

\* The ingest path holds the map inside the reset of a duplicate while the
\* block checker and the status reporter both wait for it and the channel is
\* full.
C32_Witness ==
    /\ k_pc["main"] = <<"add_shred", "reset_held">>
    /\ lock_owner["active_blocks"] = "main"
    /\ WaitsFor("checker") = "main" /\ WaitsFor("reporter") = "main"
    /\ Len(k_chan) = PersistCapacity

\* C33: for every Block in the active-blocks map, whatever shreds add_shred
\* was called with (duplicates, shred indexes out of order), no two shreds of
\* its buffered list have the same shred_idx and every buffered shred has the
\* block number of the Block, which is the key it is stored under.
C33_BufferedShredsDistinct ==
    \A n \in DOMAIN active_blocks :
        LET buffered == active_blocks[n].buffered_shreds
        IN  /\ active_blocks[n].number = n
            /\ \A i \in DOMAIN buffered : buffered[i].block_number = n
            /\ \A i, j \in DOMAIN buffered :
                   i # j => buffered[i].shred_idx # buffered[j].shred_idx

\* A duplicate was met and a block buffers two shreds that arrived with the
\* higher index first.
C33_Witness ==
    /\ duplicate_count > 0 /\ hpc = "idle"
    /\ \E n \in DOMAIN active_blocks :
          LET buffered == active_blocks[n].buffered_shreds
          IN  Len(buffered) >= 2 /\ buffered[1].shred_idx > buffered[2].shred_idx

\* The three counts of the Block tracked under n do not decrease in the step.
CountsGrow(n) ==
    /\ active_blocks'[n].transaction_count >= active_blocks[n].transaction_count
    /\ active_blocks'[n].shred_count >= active_blocks[n].shred_count
    /\ active_blocks'[n].state_change_count >= active_blocks[n].state_change_count

\* The step is the reset add_shred makes of block n for a duplicate shred.
DuplicateResetOf(n) == hpc = "dup_reset" /\ hpc' # "dup_reset" /\ h_shred.block_number = n

\* C34: while a block number stays in the active-blocks map, the
\* transaction_count, shred_count and state_change_count of the Block tracked
\* under it never decrease from one state to the next, whatever happens:
\* ingests, buffer-limit enqueues, periodic scans; except that the ingest of a
\* duplicate shred replaces the Block by a new one whose counts are those of
\* the duplicate shred alone.
C34_CountsMonotone ==
    [][\A n \in DOMAIN active_blocks \cap DOMAIN active_blocks' :
          IF DuplicateResetOf(n)
          THEN /\ active_blocks'[n].shred_count = 1
               /\ active_blocks'[n].transaction_count = h_shred.ntx
               /\ active_blocks'[n].state_change_count = h_shred.nsc
          ELSE CountsGrow(n)]_vars

\* After a duplicate, the restarted block got a further shred and the block
\* checker has scanned the map.
C34_Witness ==
    /\ duplicate_count > 0 /\ c_runs > 0 /\ hpc = "idle"
    /\ \E n \in DOMAIN active_blocks : active_blocks[n].shred_count = 2

\* C34 as stated, ingests of duplicate shreds included: the counts never
\* decrease while the block number stays in the map.
C34_CountsMonotoneAlways ==
    [][\A n \in DOMAIN active_blocks \cap DOMAIN active_blocks' : CountsGrow(n)]_vars

\* The (block_number, shred_idx) pairs of the shreds the i-th message sent on
\* the persistence channel carries.
ShredsSent(i) ==
    {<<persist_chan[i].block.buffered_shreds[k].block_number,
       persist_chan[i].block.buffered_shreds[k].shred_idx>> :
         k \in DOMAIN persist_chan[i].block.buffered_shreds}

\* C35: no shred is sent to the persistence worker more than once: over all
\* the PersistBlock messages ever sent (boundary triggers, buffer-limit
\* triggers, periodic scans), no two messages carry a shred with the same
\* (block_number, shred_idx), and so no two carry the same buffered content.
C35_NoShredSentTwice ==
    \A i, j \in DOMAIN persist_chan :
        i < j => /\ ShredsSent(i) \cap ShredsSent(j) = {}
                 /\ persist_chan[i].block.buffered_shreds
                        # persist_chan[j].block.buffered_shreds

\* The stale blocks find_stale_blocks removed from the map in the current
\* scan and the block checker has not yet sent.
StaleUnsent ==
    IF cpc \in {"stale_mark", "stale_send"} THEN {c_list[k] : k \in c_i..Len(c_list)} ELSE {}

\* A PersistBlock message carrying b was sent.
WasSent(b) ==
    \E i \in DOMAIN persist_chan :
        persist_chan[i].kind = "PersistBlock" /\ persist_chan[i].block = b

\* C36: every unpersisted Block the stale scan removed from the map is sent
\* to the persistence worker, also when the block checker is aborted at the
\* teardown of the connection: once the background tasks are aborted, no
\* removed stale block is left unsent.
C36_StaleBlocksSent == ctl_pc # "loop" => \A b \in StaleUnsent : WasSent(b)

\* The Block instances that were pushed to the queue by a fetcher worker.
PushedIds == {i \in BlockIds : pushed_by[i] # 0 /\ pushes[i] > 0}

\* C37: at the step that sets historic_sync_complete, every block pushed to
\* the backfill queue has been saved to the store and no writer holds a block
\* it has popped and not yet saved; and once the flag is set no writer puts a
\* block back into the queue.
C37_CompleteMeansSaved ==
    [][/\ (~historic_sync_complete /\ historic_sync_complete')
            => /\ \A w \in Writers : wheld[w] = NoBlock
               /\ \A i \in PushedIds : NewBlock(i).number \in store
       /\ historic_sync_complete => pushes' = pushes
      ]_vars

\* C38: whenever a step sets the shared watermark latest_synced_block to w,
\* every block number above the block the ingestion started at and up to w
\* has by then been pushed to a block queue (the backfill's or the live one)
\* at least once, also when the fetch of a backfill sub-range fails or a block
\* of a live gap fill of more than three blocks cannot be fetched.  (The
\* start block itself, which a backfill that finds nothing to do never
\* pushes, and a fetcher without workers are left out.)
C38_WatermarkCoversPushed ==
    [][(latest_synced_block' # latest_synced_block /\ max_concurrent_batches >= 1)
          => \A k \in (hist_start' + 1)..latest_synced_block' :
                 \/ PushCount(pushed', k) > 0
                 \/ \E i \in DOMAIN live_pushed' : live_pushed'[i] = k]_vars

(***************************************************************************)
(* C39: a pause stops the writers after at most one more block each        *)
(***************************************************************************)
\* The worker is in its main loop (it has been spawned and has not read Stopped).
InMainLoop(w) == wpc[w] \in {"check", "pop", "release", "save", "requeue", "requeue_enq"}

\* The step is one of worker w observing the status Paused.
ObservesPaused(w) == wpc[w] = "check" /\ status = "Paused" /\ status' = "Paused"

C40_BlockTimeNotNegative ==
    \A n \in DOMAIN active_blocks :
        LET b == active_blocks[n]
        IN  (b.first_shred_timestamp # None /\ b.last_shred_timestamp # None)
                => /\ b.block_time # None
                   /\ Unwrap(b.block_time) >= 0
                   /\ b.avg_shred_interval # None
                          => Unwrap(b.avg_shred_interval)[1] >= 0

====
